---- MODULE Spec2Model ----
(***************************************************************************)
(* Model of the real-time delivery engine of the chat application:        *)
(*   - server.js: presence maps (socketUser / userSockets), the socket.io *)
(*     handlers (private:join, private:message, message:seen,             *)
(*     presence:ping, disconnect) and POST /auth/login;                   *)
(*   - public/chat.js: connect, conversation list and history, optimistic *)
(*     send, ack handling, offline queue, seen batching.                  *)
(* Every asynchronous handler is cut at its await points: one action runs *)
(* the synchronous code up to the next await, the next action applies the *)
(* awaited store operation and runs on to the following await.            *)
(***************************************************************************)
EXTENDS Integers, Sequences, FiniteSets, TLC

\* ------------------------------------------------------------------ bounds
MaxInFlight == 2      \* server handlers suspended at an await at one time
MaxMsgs == 2          \* Message documents constructed by private:message
MaxTime == 1          \* readings of the wall clock (new Date())
MaxSockets == 2       \* socket connections accepted in one run
MaxSends == 2         \* tempIds a client generates
MaxOpens == 1         \* clicks on an entry of the conversation list
MaxQueued == 202      \* submits made while the tab is disconnected
MaxConvRequests == 2  \* POST /api/conversations requests in one run
MaxUpdates == 2       \* message:seen, message:edit and message:delete requests in one run
MaxLists == 1         \* GET /api/conversations/:id/messages requests in one run
MaxRejects == 1       \* mark-seen, edit and delete requests in one run of SpecReject
MaxSeenEvents == 2    \* message:seen events after which nothing more is scheduled
MaxResumeSockets == 3 \* socket connections accepted in one run of SpecResume
MaxTyping == 1        \* typing events forwarded in one run

\* ----------------------------------------------------------------- domains
Users == {"u1", "u2", "u3"}
Conns == {"s1", "s2", "s3", "s4"}    \* socket ids; an id is never reused
\* the connection attempts: socket id and the user its token verifies to
Handshakes == {<<"s1", "u1">>, <<"s2", "u1">>, <<"s3", "u2">>, <<"s4", "u3">>}
\* u1 on two devices
SendHandshakes == {<<"s1", "u1">>, <<"s2", "u1">>}
\* u1 and u3, who is in no conversation
OutsiderHandshakes == {<<"s1", "u1">>, <<"s4", "u3">>}
Convs == {"c1"}
NoUser == "none"
NoMsg == 0
Texts == {"a", "b"}
\* 'tmp_...' identities are the negative numbers, ObjectIds the positive ones
TempId(n) == 0 - n
TempIds == {TempId(n) : n \in 1..MaxSends}
NoTemp == 0
Me == "u1"                            \* the user of the modelled client
ClientSockets == {"s1", "s2"}         \* socket ids of the client's connections
NoSock == "none"
NoConv == "none"
AttLists == {<< >>, <<"f1">>}
Payloads == [convId : Convs, tempId : TempIds, text : Texts, attachments : AttLists]

VARIABLES
  sockets,         \* socket id -> [st, userId]  (socket.data.userId)
  socketUser,      \* server.js socketUser  : socket id -> user id
  userSockets,     \* server.js userSockets : user id -> Set(socket id)
  rooms,           \* socket.io rooms : conversation id -> set of socket ids
  users,           \* User collection : [online, lastSeenAt]
  conversations,   \* Conversation collection
  messages,        \* Message collection : _id -> document
  persisted,       \* ids of the Message documents in the order their inserts were applied
  nextId,          \* next ObjectId handed out by new Message()
  handlers,        \* async handlers suspended at an await
  trace,           \* room broadcasts and acks, in the order the server issued them
  presenceEmit,  \* the latest user:online / user:offline event issued by io.emit
  now              \* wall clock

serverVars == <<sockets, socketUser, userSockets, rooms, users, conversations,
                messages, persisted, nextId, handlers, trace, presenceEmit, now>>

VARIABLES
  cSock,           \* chat.js socket : id of the connected socket, NoSock otherwise
  isConnected,     \* chat.js isConnected (and socket.connected)
  cUsed,           \* socket ids the client has been connected with
  clientConvs,     \* chat.js conversations
  activeConv,      \* chat.js activeConv
  opening,         \* conversation whose openConversation is at its fetch
  opens,           \* clicks on the conversation list so far
  messagesCache,   \* chat.js messagesCache : convId -> messages array
  nodes,           \* the .message-item nodes of #messages : [id, status]
  pendingSends,    \* chat.js pendingSends : tempIds with an armed timeout
  offlineQueue,    \* chat.js offlineQueue
  promises,        \* the promise sendMessage returned, per tempId
  ackCallbacks,    \* ack callbacks registered by socket.emit, per tempId
  nextTemp,        \* number of the next tempId
  seenQueue,       \* chat.js seenQueue : entries [convId, ids] in insertion order
  seenTimer,       \* chat.js seenTimer : number of armed flushSeenQueue timeouts
  c2s,             \* events emitted by the client, not yet received by the server
  cursor,          \* index in trace of the last event the client has handled
  handled,         \* indexes in trace of the events the client has handled
  emitted          \* tempIds of the private:message events emitted, in order

clientState == <<cSock, isConnected, cUsed, clientConvs, activeConv, opening, opens,
                 messagesCache, nodes, pendingSends, offlineQueue, promises,
                 ackCallbacks, nextTemp, seenQueue, seenTimer, cursor, handled,
                 emitted>>

clientVars == <<clientState, c2s>>

vars == <<serverVars, clientVars>>

\* ----------------------------------------------------------------- helpers
RemoveAt(seq, i) == SubSeq(seq, 1, i - 1) \o SubSeq(seq, i + 1, Len(seq))

ReplaceAt(seq, i, x) == [seq EXCEPT ![i] = x]

Participants(c) == {conversations[c].participants[1], conversations[c].participants[2]}

\* userSockets.get(String(userId)) after has()/set(new Set())
SocketsOf(u) == IF u \in DOMAIN userSockets THEN userSockets[u] ELSE {}

\* Map.set on a Map modelled as a function
MapSet(m, k, v) == [x \in DOMAIN m \cup {k} |-> IF x = k THEN v ELSE m[x]]

\* Map.delete
MapDelete(m, k) == [x \in DOMAIN m \ {k} |-> m[x]]

\* socket.io drops a disconnected socket from every room
LeaveAll(r, s) == [c \in DOMAIN r |-> r[c] \ {s}]

Init ==
  /\ sockets = [s \in Conns |-> [st |-> "fresh", userId |-> NoUser]]
  /\ socketUser = << >>
  /\ userSockets = << >>
  /\ rooms = [c \in Convs |-> {}]
  /\ users = [u \in Users |-> [online |-> FALSE, lastSeenAt |-> 0]]
  /\ conversations = [c \in Convs |->
        [participants |-> <<"u1", "u2">>, lastMessageText |-> "", lastMessageAt |-> 0]]
  /\ messages = << >>
  /\ persisted = << >>
  /\ nextId = 1
  /\ handlers = << >>
  /\ trace = << >>
  /\ presenceEmit = [type |-> "none", userId |-> NoUser, sizeBefore |-> 0, sizeAfter |-> 0]
  /\ now = 0
  /\ cSock = NoSock
  /\ isConnected = FALSE
  /\ cUsed = {}
  /\ clientConvs = << >>
  /\ activeConv = NoConv
  /\ opening = NoConv
  /\ opens = 0
  /\ messagesCache = << >>
  /\ nodes = << >>
  /\ pendingSends = {}
  /\ offlineQueue = << >>
  /\ promises = << >>
  /\ ackCallbacks = << >>
  /\ nextTemp = 1
  /\ seenQueue = << >>
  /\ seenTimer = 0
  /\ c2s = << >>
  /\ cursor = 0
  /\ handled = {}
  /\ emitted = << >>

\* ---------------------------------------------------------------- presence
\* setOnline up to its await: both maps are updated, the User write is issued
SetOnlineSync(userId, socketId) ==
  /\ socketUser' = MapSet(socketUser, socketId, userId)
  /\ userSockets' = MapSet(userSockets, userId, SocketsOf(userId) \cup {socketId})
  /\ handlers' = Append(handlers,
        [kind |-> "setOnline", userId |-> userId, conn |-> socketId,
         at |-> now, sizeBefore |-> Cardinality(SocketsOf(userId))])

\* io.on('connection'): tok is the user a valid token names, NoUser when the
\* token is missing or does not verify; `limit` connections are accepted
ConnectionUpTo(s, tok, limit) ==
  /\ sockets[s].st = "fresh"
  /\ Cardinality({c \in Conns : sockets[c].st # "fresh"}) < limit
  /\ Len(handlers) < MaxInFlight
  /\ sockets' = [sockets EXCEPT ![s] = [st |-> "open", userId |-> tok]]
  /\ IF tok # NoUser
       THEN SetOnlineSync(tok, s)
       ELSE UNCHANGED <<socketUser, userSockets, handlers>>
  /\ UNCHANGED <<rooms, users, conversations, messages, persisted, nextId, trace,
                 presenceEmit, now>>
  /\ UNCHANGED clientVars

\* a socket connects
Connection(s, tok) == ConnectionUpTo(s, tok, MaxSockets)

\* setOnline after its await: the User write is applied, then io.emit
SetOnlineResume(i) ==
  /\ i \in DOMAIN handlers
  /\ handlers[i].kind = "setOnline"
  /\ LET h == handlers[i] IN
       /\ users' = [users EXCEPT ![h.userId] = [online |-> TRUE, lastSeenAt |-> h.at]]
       /\ presenceEmit' =
            [type |-> "user:online", userId |-> h.userId,
             sizeBefore |-> h.sizeBefore, sizeAfter |-> h.sizeBefore + 1]
  /\ handlers' = RemoveAt(handlers, i)
  /\ UNCHANGED <<sockets, socketUser, userSockets, rooms, conversations,
                 messages, persisted, nextId, trace, now>>
  /\ UNCHANGED clientVars

\* variant: the user's entry is kept when its last socket is deleted
SetOfflineSync_KeepEmpty(userId, socketId) ==
  /\ socketUser' = MapDelete(socketUser, socketId)
  /\ IF userId \in DOMAIN userSockets
       THEN LET s == userSockets[userId] \ {socketId} IN
              /\ userSockets' = MapSet(userSockets, userId, s)
              /\ IF s = {}
                   THEN handlers' = Append(handlers,
                          [kind |-> "setOffline", userId |-> userId, conn |-> socketId,
                           at |-> now,
                           sizeBefore |-> Cardinality(userSockets[userId])])
                   ELSE UNCHANGED handlers
       ELSE UNCHANGED <<userSockets, handlers>>

\* setOffline up to its await
SetOfflineSync(userId, socketId) ==
  /\ socketUser' = MapDelete(socketUser, socketId)
  /\ IF userId \in DOMAIN userSockets
       THEN LET s == userSockets[userId] \ {socketId} IN
              IF s = {}
                THEN /\ userSockets' = MapDelete(userSockets, userId)
                     /\ handlers' = Append(handlers,
                          [kind |-> "setOffline", userId |-> userId, conn |-> socketId,
                           at |-> now,
                           sizeBefore |-> Cardinality(userSockets[userId])])
                ELSE /\ userSockets' = MapSet(userSockets, userId, s)
                     /\ UNCHANGED handlers
       ELSE UNCHANGED <<userSockets, handlers>>

\* socket.on('disconnect')
Disconnect(s) ==
  /\ sockets[s].st = "open"
  /\ Len(handlers) < MaxInFlight
  /\ sockets' = [sockets EXCEPT ![s].st = "closed"]
  /\ rooms' = LeaveAll(rooms, s)
  /\ IF sockets[s].userId # NoUser
       THEN SetOfflineSync(sockets[s].userId, s)
       ELSE UNCHANGED <<socketUser, userSockets, handlers>>
  /\ UNCHANGED <<users, conversations, messages, persisted, nextId, trace, presenceEmit, now>>
  /\ UNCHANGED clientVars

\* setOffline after its await
SetOfflineResume(i) ==
  /\ i \in DOMAIN handlers
  /\ handlers[i].kind = "setOffline"
  /\ LET h == handlers[i] IN
       /\ users' = [users EXCEPT ![h.userId] = [online |-> FALSE, lastSeenAt |-> h.at]]
       /\ presenceEmit' =
            [type |-> "user:offline", userId |-> h.userId,
             sizeBefore |-> h.sizeBefore, sizeAfter |-> h.sizeBefore - 1]
  /\ handlers' = RemoveAt(handlers, i)
  /\ UNCHANGED <<sockets, socketUser, userSockets, rooms, conversations,
                 messages, persisted, nextId, trace, now>>
  /\ UNCHANGED clientVars

\* socket.on('presence:ping') up to its await
PresencePing(s) ==
  /\ sockets[s].st = "open"
  /\ sockets[s].userId # NoUser
  /\ Len(handlers) < MaxInFlight
  /\ handlers' = Append(handlers,
        [kind |-> "ping", userId |-> sockets[s].userId, conn |-> s, at |-> now])
  /\ UNCHANGED <<sockets, socketUser, userSockets, rooms, users, conversations,
                 messages, persisted, nextId, trace, presenceEmit, now>>
  /\ UNCHANGED clientVars

\* presence:ping : the User write is applied
PresencePingResume(i) ==
  /\ i \in DOMAIN handlers
  /\ handlers[i].kind = "ping"
  /\ users' = [users EXCEPT ![handlers[i].userId].lastSeenAt = handlers[i].at]
  /\ handlers' = RemoveAt(handlers, i)
  /\ UNCHANGED <<sockets, socketUser, userSockets, rooms, conversations,
                 messages, persisted, nextId, trace, presenceEmit, now>>
  /\ UNCHANGED clientVars

\* ------------------------------------------------------------------- rooms
\* socket.on('private:join'): socket.join(String(convId))
PrivateJoin(s, convId) ==
  /\ sockets[s].st = "open"
  /\ rooms' = [rooms EXCEPT ![convId] = @ \cup {s}]
  /\ UNCHANGED <<sockets, socketUser, userSockets, users, conversations,
                 messages, persisted, nextId, handlers, trace, presenceEmit, now>>

\* socket.on('private:leave'): socket.leave(String(convId))
PrivateLeave(s, convId) ==
  /\ sockets[s].st = "open"
  /\ s \in rooms[convId]
  /\ rooms' = [rooms EXCEPT ![convId] = @ \ {s}]
  /\ UNCHANGED <<sockets, socketUser, userSockets, users, conversations,
                 messages, persisted, nextId, handlers, trace, presenceEmit, now>>

\* a private:join / private:leave event of any connected socket
SocketJoin(s, convId) ==
  /\ s \notin rooms[convId]
  /\ PrivateJoin(s, convId)
  /\ UNCHANGED clientVars

SocketLeave(s, convId) == PrivateLeave(s, convId) /\ UNCHANGED clientVars

\* --------------------------------------------------------- private:message
\* mutant: the ack does not carry the tempId of the request
AckEvent_NoTempId(s, req, ok, tempId, id, snap, error) ==
  [type |-> "ack", conn |-> s, req |-> req,
   to |-> IF sockets[s].st = "open" THEN {s} ELSE {},
   msg |-> id, ok |-> ok, tempId |-> NoTemp, snap |-> snap, error |-> error]

\* an ack callback invoked on socket s (dropped when s has disconnected)
\* (req is the request payload the event answers)
AckEvent(s, req, ok, tempId, id, snap, error) ==
  [type |-> "ack", conn |-> s, req |-> req,
   to |-> IF sockets[s].st = "open" THEN {s} ELSE {},
   msg |-> id, ok |-> ok, tempId |-> tempId, snap |-> snap, error |-> error]

\* mutant: socket.to(room) instead of io.to(room), which skips the sender
RoomEmit_ExceptSender(convId, s, req, id, snap) ==
  [type |-> "private:message", conn |-> s, req |-> req, to |-> rooms[convId] \ {s},
   msg |-> id, ok |-> TRUE, tempId |-> NoTemp, snap |-> snap, error |-> ""]

\* io.to(String(convId)).emit('private:message', {conversationId, message})
RoomEmit(convId, s, req, id, snap) ==
  [type |-> "private:message", conn |-> s, req |-> req, to |-> rooms[convId],
   msg |-> id, ok |-> TRUE, tempId |-> NoTemp, snap |-> snap, error |-> ""]

\* new Message({conversationId, senderId, text: text || '', attachments})
NewMessage(id, convId, senderId, text, attachments) ==
  [_id |-> id, conversationId |-> convId, senderId |-> senderId, text |-> text,
   attachments |-> attachments, createdAt |-> now, editedAt |-> 0,
   deleted |-> FALSE, deletedForAll |-> FALSE, seenBy |-> << >>]

\* socket.on('private:message') up to `await msg.save()`
PrivateMessage(s, payload) ==
  /\ sockets[s].st = "open"
  /\ LET senderId == sockets[s].userId IN
       IF senderId = NoUser
         THEN /\ trace' = Append(trace,
                   AckEvent(s, payload, FALSE, NoTemp, NoMsg, NoMsg, "not_authenticated"))
              /\ Len(trace) < 2 * MaxMsgs
              /\ UNCHANGED <<handlers, nextId>>
         ELSE /\ nextId <= MaxMsgs
              /\ Len(handlers) < MaxInFlight
              /\ handlers' = Append(handlers,
                   [kind |-> "send", pc |-> "save", conn |-> s, payload |-> payload,
                    doc |-> NewMessage(nextId, payload.convId, senderId,
                                       payload.text, payload.attachments)])
              /\ nextId' = nextId + 1
              /\ UNCHANGED trace
  /\ UNCHANGED <<sockets, socketUser, userSockets, rooms, users, conversations,
                 messages, persisted, presenceEmit, now>>

\* a private:message event of any connected socket
SocketMessage(s, payload) == PrivateMessage(s, payload) /\ UNCHANGED clientVars

\* mutant: a send equal to a stored message is not inserted again
SendSave_Dedup(i) ==
  /\ i \in DOMAIN handlers
  /\ handlers[i].kind = "send"
  /\ handlers[i].pc = "save"
  /\ LET h == handlers[i]
         dup == \E m \in DOMAIN messages :
                  /\ messages[m].senderId = h.doc.senderId
                  /\ messages[m].conversationId = h.doc.conversationId
                  /\ messages[m].text = h.doc.text
     IN
       /\ messages' = IF dup THEN messages ELSE MapSet(messages, h.doc._id, h.doc)
       /\ persisted' = IF dup THEN persisted ELSE Append(persisted, h.doc._id)
       /\ handlers' = ReplaceAt(handlers, i,
            [kind |-> "send", pc |-> "updateConv", conn |-> h.conn,
             payload |-> h.payload, doc |-> h.doc, at |-> now])
  /\ UNCHANGED <<sockets, socketUser, userSockets, rooms, users, conversations,
                 nextId, trace, presenceEmit, now>>
  /\ UNCHANGED clientVars

\* msg.save() is applied; Conversation.findByIdAndUpdate is issued
SendSave(i) ==
  /\ i \in DOMAIN handlers
  /\ handlers[i].kind = "send"
  /\ handlers[i].pc = "save"
  /\ LET h == handlers[i] IN
       /\ messages' = MapSet(messages, h.doc._id, h.doc)
       /\ persisted' = Append(persisted, h.doc._id)
       /\ handlers' = ReplaceAt(handlers, i,
            [kind |-> "send", pc |-> "updateConv", conn |-> h.conn,
             payload |-> h.payload, doc |-> h.doc, at |-> now])
  /\ UNCHANGED <<sockets, socketUser, userSockets, rooms, users, conversations,
                 nextId, trace, presenceEmit, now>>
  /\ UNCHANGED clientVars

\* Conversation.findByIdAndUpdate is applied; Message.findById is issued
SendUpdateConv(i) ==
  /\ i \in DOMAIN handlers
  /\ handlers[i].kind = "send"
  /\ handlers[i].pc = "updateConv"
  /\ LET h == handlers[i] IN
       /\ conversations' =
            IF h.payload.convId \in DOMAIN conversations
              THEN [conversations EXCEPT ![h.payload.convId] =
                      [@ EXCEPT !.lastMessageText = h.payload.text,
                                !.lastMessageAt = h.at]]
              ELSE conversations
       /\ handlers' = ReplaceAt(handlers, i,
            [kind |-> "send", pc |-> "populate", conn |-> h.conn,
             payload |-> h.payload, doc |-> h.doc])
  /\ UNCHANGED <<sockets, socketUser, userSockets, rooms, users, messages, persisted,
                 nextId, trace, presenceEmit, now>>
  /\ UNCHANGED clientVars

\* mutant: the ack is invoked before the room emit
SendPopulate_AckFirst(i) ==
  /\ i \in DOMAIN handlers
  /\ handlers[i].kind = "send"
  /\ handlers[i].pc = "populate"
  /\ LET h == handlers[i]
         sendMsg == IF h.doc._id \in DOMAIN messages THEN messages[h.doc._id] ELSE h.doc
     IN  trace' = trace \o
            << AckEvent(h.conn, h.payload, TRUE, h.payload.tempId, h.doc._id,
                        sendMsg, ""),
               RoomEmit(h.payload.convId, h.conn, h.payload, h.doc._id, sendMsg) >>
  /\ handlers' = RemoveAt(handlers, i)
  /\ UNCHANGED <<sockets, socketUser, userSockets, rooms, users, conversations,
                 messages, persisted, nextId, presenceEmit, now>>
  /\ UNCHANGED clientVars

\* Message.findById(...).populate() is applied; the room emit and the ack follow
SendPopulate(i) ==
  /\ i \in DOMAIN handlers
  /\ handlers[i].kind = "send"
  /\ handlers[i].pc = "populate"
  /\ LET h == handlers[i]
         sendMsg == messages[h.doc._id]
     IN  trace' = trace \o
            << RoomEmit(h.payload.convId, h.conn, h.payload, h.doc._id, sendMsg),
               AckEvent(h.conn, h.payload, TRUE, h.payload.tempId, h.doc._id,
                        sendMsg, "") >>
  /\ handlers' = RemoveAt(handlers, i)
  /\ UNCHANGED <<sockets, socketUser, userSockets, rooms, users, conversations,
                 messages, persisted, nextId, presenceEmit, now>>
  /\ UNCHANGED clientVars

\* ------------------------------------------------------------ message:seen
\* io.to(String(convId)).emit('message:seen', {conversationId, messageIds, userId})
SeenEmit(convId, s, req) ==
  [type |-> "message:seen", conn |-> s, req |-> req, to |-> rooms[convId],
   msg |-> NoMsg, ok |-> TRUE, tempId |-> NoTemp, snap |-> NoMsg, error |-> ""]

\* cb({ ok }) of message:seen
SeenAck(s, req, ok) ==
  [type |-> "seen:ack", conn |-> s, req |-> req,
   to |-> IF sockets[s].st = "open" THEN {s} ELSE {},
   msg |-> NoMsg, ok |-> ok, tempId |-> NoTemp, snap |-> NoMsg, error |-> ""]

\* socket.on('message:seen') up to `await Message.updateMany(...)`
MessageSeen(s, payload) ==
  /\ sockets[s].st = "open"
  /\ Len(handlers) < MaxInFlight
  /\ handlers' = Append(handlers, [kind |-> "seen", conn |-> s, payload |-> payload])
  /\ UNCHANGED <<sockets, socketUser, userSockets, rooms, users, conversations,
                 messages, persisted, nextId, trace, presenceEmit, now>>

\* variant: $push, which appends the value whether the array holds it or not
AddToSet_Push(arr, x) == Append(arr, x)

\* $addToSet: the value is appended unless the array already holds it
AddToSet(arr, x) ==
  IF \E k \in DOMAIN arr : arr[k] = x THEN arr ELSE Append(arr, x)

\* the users in the seenBy array of a Message document
SeenSet(doc) == {doc.seenBy[k] : k \in DOMAIN doc.seenBy}

\* Message.updateMany({_id: {$in: messageIds}}, {$addToSet: {seenBy: uid}})
MarkSeen(msgs, messageIds, uid) ==
  [m \in DOMAIN msgs |->
     IF m \in messageIds
       THEN [msgs[m] EXCEPT !.seenBy = AddToSet(@, uid)]
       ELSE msgs[m]]

\* the stores updateMany can leave behind: socket.data.userId is undefined on
\* a socket without a valid token, and an update whose only value is undefined
\* is either dropped by the driver or stored as given
SeenUpdates(messageIds, uid) ==
  IF uid = NoUser
    THEN {messages, MarkSeen(messages, messageIds, uid)}
    ELSE {MarkSeen(messages, messageIds, uid)}

\* updateMany is applied ($addToSet seenBy), then the room emit and the ack
MessageSeenResume(i) ==
  /\ i \in DOMAIN handlers
  /\ handlers[i].kind = "seen"
  /\ LET h == handlers[i]
         uid == sockets[h.conn].userId
     IN  /\ messages' \in SeenUpdates(h.payload.messageIds, uid)
         /\ UNCHANGED persisted
         /\ trace' = trace \o <<SeenEmit(h.payload.convId, h.conn, h.payload),
                                SeenAck(h.conn, h.payload, TRUE)>>
  /\ handlers' = RemoveAt(handlers, i)
  /\ UNCHANGED <<sockets, socketUser, userSockets, rooms, users, conversations,
                 nextId, presenceEmit, now>>
  /\ UNCHANGED clientVars

\* variant: a rejection is emitted to the rooms instead of the callback
UpdateAck_ToRoom(type, s, req, ok, error) ==
  [type |-> type, conn |-> s, req |-> req,
   to |-> IF ok THEN (IF sockets[s].st = "open" THEN {s} ELSE {})
                ELSE UNION {rooms[c] : c \in DOMAIN rooms},
   msg |-> req.messageId, ok |-> ok, tempId |-> NoTemp, snap |-> NoMsg, error |-> error]

\* cb({ok, error}) of message:edit and of message:delete
UpdateAck(type, s, req, ok, error) ==
  [type |-> type, conn |-> s, req |-> req,
   to |-> IF sockets[s].st = "open" THEN {s} ELSE {},
   msg |-> req.messageId, ok |-> ok, tempId |-> NoTemp, snap |-> NoMsg, error |-> error]

\* io.to(String(msg.conversationId)).emit('message:edited' | 'message:deleted', ...)
UpdateEmit(type, s, req, doc) ==
  [type |-> type, conn |-> s, req |-> req, to |-> rooms[doc.conversationId],
   msg |-> doc._id, ok |-> TRUE, tempId |-> NoTemp, snap |-> doc, error |-> ""]

\* an awaited store call of a handler rejects: the handler's catch block runs
StoreError(i) ==
  /\ i \in DOMAIN handlers
  /\ LET h == handlers[i] IN
       IF h.kind = "send"
         THEN trace' = Append(trace,
                AckEvent(h.conn, h.payload, FALSE, NoTemp, NoMsg, NoMsg, "server_error"))
         ELSE IF h.kind = "seen"
           THEN trace' = Append(trace, SeenAck(h.conn, h.payload, FALSE))
         ELSE IF h.kind = "edit"
           THEN trace' = Append(trace,
                  UpdateAck("edit:ack", h.conn, h.payload, FALSE, "server_error"))
         ELSE IF h.kind = "delete"
           THEN trace' = Append(trace,
                  UpdateAck("delete:ack", h.conn, h.payload, FALSE, "server_error"))
           ELSE UNCHANGED trace
  /\ handlers' = RemoveAt(handlers, i)
  /\ UNCHANGED <<sockets, socketUser, userSockets, rooms, users, conversations,
                 messages, persisted, nextId, presenceEmit, now>>
  /\ UNCHANGED clientVars

\* POST /auth/login with valid credentials: the User write of line 202
Login(u) ==
  /\ users' = [users EXCEPT ![u] = [online |-> TRUE, lastSeenAt |-> now]]
  /\ UNCHANGED <<sockets, socketUser, userSockets, rooms, conversations,
                 messages, persisted, nextId, handlers, trace, presenceEmit, now>>
  /\ UNCHANGED clientVars

\* the wall clock advances
Tick ==
  /\ now < MaxTime
  /\ now' = now + 1
  /\ UNCHANGED <<sockets, socketUser, userSockets, rooms, users, conversations,
                 messages, persisted, nextId, handlers, trace, presenceEmit>>
  /\ UNCHANGED clientVars

\* ================================================================== client
\* public/chat.js, run by user Me in one browser tab
MAX_OFFLINE_QUEUE == 200

\* messagesCache.get(convId) || []
CacheOf(c) == IF c \in DOMAIN messagesCache THEN messagesCache[c] ELSE << >>

\* the optimistic object of sendMessage
Optimistic(tempId, convId, text, attachments, status) ==
  [_id |-> tempId, temp |-> TRUE, tempId |-> tempId, conversationId |-> convId,
   senderId |-> Me, text |-> text, attachments |-> attachments, status |-> status,
   deleted |-> FALSE, deletedForAll |-> FALSE]

\* a message document as the client reads it off the wire: it has no temp,
\* tempId or status property (undefined reads as FALSE / NoTemp / "")
CacheEntry(doc) ==
  [_id |-> doc._id, temp |-> FALSE, tempId |-> NoTemp,
   conversationId |-> doc.conversationId, senderId |-> doc.senderId,
   text |-> doc.text, attachments |-> doc.attachments, status |-> "",
   deleted |-> doc.deleted, deletedForAll |-> doc.deletedForAll]

\* appendMessageToUI: data-id and the text of .msg-status
NodeOf(m) == [id |-> m._id, status |-> IF m.temp THEN "sending" ELSE m.status]

\* renderMessages: the container is emptied and every message appended
RenderMessages(msgs) == [i \in DOMAIN msgs |-> NodeOf(msgs[i])]

\* querySelector(`[data-id="${id}"]`) : index of the first match, 0 if none
FindNode(id) ==
  IF \E i \in DOMAIN nodes : nodes[i].id = id
    THEN CHOOSE i \in DOMAIN nodes :
           nodes[i].id = id /\ \A j \in 1..(i - 1) : nodes[j].id # id
    ELSE 0

\* updateOptimisticStatus / markMessageSeen: the status text of that node
SetNodeStatus(id, status) ==
  IF FindNode(id) = 0 THEN nodes
  ELSE [nodes EXCEPT ![FindNode(id)].status = status]

\* GET /api/conversations/:id/messages: find().sort({createdAt: 1}); the
\* order of documents with equal createdAt is not determined by the sort
ListMessages(c) ==
  LET S == {m \in DOMAIN messages : messages[m].conversationId = c}
  IN  {q \in [1..Cardinality(S) -> S] :
         /\ \A i, j \in DOMAIN q : i # j => q[i] # q[j]
         /\ \A i, j \in DOMAIN q :
              i < j => messages[q[i]].createdAt <= messages[q[j]].createdAt}

\* GET /api/conversations: the conversations Me participates in
MyConversations ==
  LET S == {c \in DOMAIN conversations : Me \in Participants(c)}
  IN  CHOOSE q \in [1..Cardinality(S) -> S] :
        /\ \A i, j \in DOMAIN q : i # j => q[i] # q[j]
        /\ \A i, j \in DOMAIN q :
             i < j => conversations[q[i]].lastMessageAt >= conversations[q[j]].lastMessageAt

JoinEvent(s, c) == [type |-> "private:join", sock |-> s, payload |-> [convId |-> c]]

MessageEvent(s, p) == [type |-> "private:message", sock |-> s, payload |-> p]

SeenEvent(s, c, ids) ==
  [type |-> "message:seen", sock |-> s, payload |-> [convId |-> c, messageIds |-> ids]]

\* variant: the loop pops the tail of the queue, newest payload first
FlushOfflineQueue_Lifo(s) ==
  [i \in DOMAIN offlineQueue |->
     MessageEvent(s, offlineQueue[Len(offlineQueue) + 1 - i])]

\* flushOfflineQueue: `while (offlineQueue.length)` shifts the head and emits
\* it as private:message, head first
FlushOfflineQueue(s) ==
  [i \in DOMAIN offlineQueue |-> MessageEvent(s, offlineQueue[i])]

\* variant: the loop reads the payloads and leaves them in the queue
Drained_Kept(q) == q

\* the queue the loop of flushOfflineQueue leaves behind
Drained(q) == SubSeq(q, Len(q) + 1, Len(q))

\* socket.on('connect'): join every listed conversation, flushOfflineQueue
OnConnect(s) ==
  /\ s \in ClientSockets
  /\ sockets[s].st = "open"
  /\ cSock = NoSock
  /\ s \notin cUsed
  /\ cSock' = s
  /\ cUsed' = cUsed \cup {s}
  /\ isConnected' = TRUE
  /\ c2s' = c2s \o [i \in DOMAIN clientConvs |-> JoinEvent(s, clientConvs[i])]
                \o FlushOfflineQueue(s)
  /\ emitted' = emitted \o [i \in DOMAIN FlushOfflineQueue(s) |->
                              FlushOfflineQueue(s)[i].payload.tempId]
  /\ ackCallbacks' = [t \in DOMAIN ackCallbacks \cup
                             {offlineQueue[i].tempId : i \in DOMAIN offlineQueue} |->
                        IF \E i \in DOMAIN offlineQueue : offlineQueue[i].tempId = t
                          THEN "flush" ELSE ackCallbacks[t]]
  /\ offlineQueue' = Drained(offlineQueue)
  /\ UNCHANGED <<clientConvs, activeConv, opening, opens, messagesCache, nodes,
                 pendingSends, promises, nextTemp, seenQueue, seenTimer, cursor, handled>>
  /\ UNCHANGED serverVars

\* socket.on('disconnect')
OnDisconnect ==
  /\ isConnected
  /\ isConnected' = FALSE
  /\ cSock' = NoSock
  /\ UNCHANGED <<cUsed, clientConvs, activeConv, opening, opens, messagesCache, nodes,
                 pendingSends, offlineQueue, promises, ackCallbacks, nextTemp,
                 seenQueue, seenTimer, cursor, handled, c2s>>
  /\ UNCHANGED emitted
  /\ UNCHANGED serverVars

\* fetchConversations at boot; the first conversation is opened when none is
FetchConversations ==
  /\ clientConvs = << >>
  /\ clientConvs' = MyConversations
  /\ IF activeConv = NoConv /\ MyConversations # << >>
       THEN activeConv' = MyConversations[1] /\ opening' = MyConversations[1]
       ELSE UNCHANGED <<activeConv, opening>>
  /\ UNCHANGED <<cSock, isConnected, cUsed, opens, messagesCache, nodes, pendingSends,
                 offlineQueue, promises, ackCallbacks, nextTemp, seenQueue,
                 seenTimer, cursor, handled, c2s>>
  /\ UNCHANGED emitted
  /\ UNCHANGED serverVars

\* a click on an entry of the conversation list: openConversation up to its fetch
OpenConversation(c) ==
  /\ \E i \in DOMAIN clientConvs : clientConvs[i] = c
  /\ opening = NoConv
  /\ opens < MaxOpens
  /\ opens' = opens + 1
  /\ activeConv' = c
  /\ opening' = c
  /\ UNCHANGED <<cSock, isConnected, cUsed, clientConvs, messagesCache, nodes,
                 pendingSends, offlineQueue, promises, ackCallbacks, nextTemp,
                 seenQueue, seenTimer, cursor, handled, c2s>>
  /\ UNCHANGED emitted
  /\ UNCHANGED serverVars

\* openConversation after its fetch: the cache entry is replaced by the list
OpenConversationDone ==
  /\ opening # NoConv
  /\ \E q \in ListMessages(opening) :
       LET msgs == [i \in DOMAIN q |-> CacheEntry(messages[q[i]])]
       IN  /\ messagesCache' = MapSet(messagesCache, opening, msgs)
           /\ nodes' = IF opening = activeConv THEN RenderMessages(msgs) ELSE << >>
  /\ c2s' = IF isConnected THEN Append(c2s, JoinEvent(cSock, opening)) ELSE c2s
  /\ opening' = NoConv
  /\ UNCHANGED <<cSock, isConnected, cUsed, clientConvs, activeConv, opens,
                 pendingSends, offlineQueue, promises, ackCallbacks, nextTemp,
                 seenQueue, seenTimer, cursor, handled>>
  /\ UNCHANGED emitted
  /\ UNCHANGED serverVars

\* variant: the payload is pushed and nothing is shifted out
Enqueue_Unbounded(q, payload) == Append(q, payload)

\* offlineQueue.push(payload); if(offlineQueue.length > MAX_OFFLINE_QUEUE) offlineQueue.shift()
Enqueue(q, payload) ==
  IF Len(q) + 1 > MAX_OFFLINE_QUEUE THEN Tail(Append(q, payload)) ELSE Append(q, payload)

\* sendMessage(activeConv, text, []), for the first `limit` tempIds
SendMessageUpTo(text, limit) ==
  /\ activeConv # NoConv
  /\ nextTemp <= limit
  /\ LET tempId == TempId(nextTemp)
         payload == [convId |-> activeConv, tempId |-> tempId, text |-> text,
                     attachments |-> << >>]
     IN  /\ nodes' = Append(nodes, NodeOf(Optimistic(tempId, activeConv, text, << >>, "sending")))
         /\ IF isConnected
              THEN /\ messagesCache' = MapSet(messagesCache, activeConv,
                        Append(CacheOf(activeConv),
                               Optimistic(tempId, activeConv, text, << >>, "sending")))
                   /\ pendingSends' = pendingSends \cup {tempId}
                   /\ promises' = MapSet(promises, tempId, [st |-> "pending", value |-> NoMsg])
                   /\ c2s' = Append(c2s, MessageEvent(cSock, payload))
                   /\ emitted' = Append(emitted, tempId)
                   /\ ackCallbacks' = MapSet(ackCallbacks, tempId, "send")
                   /\ UNCHANGED offlineQueue
              ELSE /\ messagesCache' = MapSet(messagesCache, activeConv,
                        Append(CacheOf(activeConv),
                               Optimistic(tempId, activeConv, text, << >>, "queued")))
                   /\ offlineQueue' = Enqueue(offlineQueue, payload)
                   /\ promises' = MapSet(promises, tempId, [st |-> "fulfilled", value |-> tempId])
                   /\ UNCHANGED <<pendingSends, c2s, ackCallbacks, emitted>>
  /\ nextTemp' = nextTemp + 1
  /\ UNCHANGED <<cSock, isConnected, cUsed, clientConvs, activeConv, opening, opens,
                 seenQueue, seenTimer, cursor, handled>>
  /\ UNCHANGED serverVars

\* the send form is submitted
SendMessage(text) == SendMessageUpTo(text, MaxSends)

\* the timer of sendMessage fires after OPTIMISTIC_TIMEOUT
SendTimeout(tempId) ==
  /\ tempId \in pendingSends
  /\ pendingSends' = pendingSends \ {tempId}
  /\ nodes' = SetNodeStatus(tempId, "failed")
  /\ promises' = IF promises[tempId].st = "pending"
                   THEN [promises EXCEPT ![tempId] = [st |-> "rejected", value |-> NoMsg]]
                   ELSE promises
  /\ UNCHANGED <<cSock, isConnected, cUsed, clientConvs, activeConv, opening, opens,
                 messagesCache, offlineQueue, ackCallbacks, nextTemp, seenQueue,
                 seenTimer, cursor, handled, c2s>>
  /\ UNCHANGED emitted
  /\ UNCHANGED serverVars

\* the next event of the server the connected socket receives, 0 if none
NextEvent ==
  LET K == {k \in (cursor + 1)..Len(trace) : cSock \in trace[k].to}
  IN  IF K = {} THEN 0 ELSE CHOOSE k \in K : \A j \in K : k <= j

\* scheduleSeen, the queue: the id is added to the set of its conversation;
\* a conversation without an entry gets one at the end
ScheduleSeen(q, convId, messageId) ==
  IF \E i \in DOMAIN q : q[i].convId = convId
    THEN [i \in DOMAIN q |->
            IF q[i].convId = convId THEN [q[i] EXCEPT !.ids = @ \cup {messageId}]
                                    ELSE q[i]]
    ELSE Append(q, [convId |-> convId, ids |-> {messageId}])

\* variant: the timeout is set without clearing the one that is armed
ArmSeenTimer_NoClear(timers) == timers + 1

\* scheduleSeen, the timer: if(seenTimer) clearTimeout(seenTimer);
\* seenTimer = setTimeout(flushSeenQueue, SEEN_BATCH_DELAY)
ArmSeenTimer(timers) == 1

\* socket.on('private:message'): receiveMessage(conversationId, message)
ReceiveMessage ==
  /\ NextEvent # 0
  /\ trace[NextEvent].type = "private:message"
  /\ LET convId == trace[NextEvent].req.convId
         message == CacheEntry(trace[NextEvent].snap)
     IN  /\ messagesCache' = MapSet(messagesCache, convId, Append(CacheOf(convId), message))
         /\ IF convId = activeConv
              THEN /\ nodes' = Append(nodes, NodeOf(message))
                   /\ seenQueue' = ScheduleSeen(seenQueue, convId, message._id)
                   /\ seenTimer' = ArmSeenTimer(seenTimer)
              ELSE UNCHANGED <<nodes, seenQueue, seenTimer>>
  /\ cursor' = NextEvent
  /\ handled' = handled \cup {NextEvent}
  /\ UNCHANGED <<cSock, isConnected, cUsed, clientConvs, activeConv, opening, opens,
                 pendingSends, offlineQueue, promises, ackCallbacks, nextTemp, c2s>>
  /\ UNCHANGED emitted
  /\ UNCHANGED serverVars

\* the ack callback handed to socket.emit('private:message', ...), by
\* sendMessage ("send") or by flushOfflineQueue ("flush")
AckCallback ==
  /\ NextEvent # 0
  /\ trace[NextEvent].type = "ack"
  /\ LET ack == trace[NextEvent]
         tempId == ack.req.tempId
     IN  /\ tempId \in DOMAIN ackCallbacks
         /\ IF ackCallbacks[tempId] = "send" /\ ack.ok
              THEN /\ promises' = IF promises[tempId].st = "pending"
                                    THEN [promises EXCEPT ![tempId] =
                                            [st |-> "fulfilled", value |-> ack.snap._id]]
                                    ELSE promises
                   /\ pendingSends' = pendingSends \ {tempId}
                   /\ UNCHANGED nodes
              ELSE IF ackCallbacks[tempId] = "send" /\ ack.error # ""
                THEN /\ nodes' = SetNodeStatus(tempId, "failed")
                     /\ pendingSends' = pendingSends \ {tempId}
                     /\ promises' = IF promises[tempId].st = "pending"
                                      THEN [promises EXCEPT ![tempId] =
                                              [st |-> "rejected", value |-> NoMsg]]
                                      ELSE promises
                ELSE UNCHANGED <<nodes, pendingSends, promises>>
         /\ ackCallbacks' = MapDelete(ackCallbacks, tempId)
  /\ cursor' = NextEvent
  /\ handled' = handled \cup {NextEvent}
  /\ UNCHANGED <<cSock, isConnected, cUsed, clientConvs, activeConv, opening, opens,
                 messagesCache, offlineQueue, nextTemp, seenQueue, seenTimer, c2s>>
  /\ UNCHANGED emitted
  /\ UNCHANGED serverVars

\* socket.on('message:seen'): markMessageSeen for every id; the ack of
\* message:seen runs an empty callback
OnMessageSeen ==
  /\ NextEvent # 0
  /\ trace[NextEvent].type \in {"message:seen", "seen:ack"}
  /\ nodes' = IF trace[NextEvent].type = "seen:ack" THEN nodes
              ELSE [i \in DOMAIN nodes |->
                      IF /\ nodes[i].id \in trace[NextEvent].req.messageIds
                         /\ i = FindNode(nodes[i].id)
                        THEN [nodes[i] EXCEPT !.status = "seen"]
                        ELSE nodes[i]]
  /\ cursor' = NextEvent
  /\ handled' = handled \cup {NextEvent}
  /\ UNCHANGED <<cSock, isConnected, cUsed, clientConvs, activeConv, opening, opens,
                 messagesCache, pendingSends, offlineQueue, promises, ackCallbacks,
                 nextTemp, seenQueue, seenTimer, c2s>>
  /\ UNCHANGED emitted
  /\ UNCHANGED serverVars

\* the message:seen events of flushSeenQueue: one for every entry of the
\* queue, in the order of the entries
SeenEvents(s, q) == [i \in DOMAIN q |-> SeenEvent(s, q[i].convId, q[i].ids)]

\* an armed timer fires after SEEN_BATCH_DELAY: flushSeenQueue emits the
\* entries when the socket is connected, and clears the queue in either case
FlushSeenQueue ==
  /\ seenTimer > 0
  /\ c2s' = IF isConnected THEN c2s \o SeenEvents(cSock, seenQueue) ELSE c2s
  /\ seenQueue' = << >>
  /\ seenTimer' = seenTimer - 1
  /\ UNCHANGED <<cSock, isConnected, cUsed, clientConvs, activeConv, opening, opens,
                 messagesCache, nodes, pendingSends, offlineQueue, promises,
                 ackCallbacks, nextTemp, cursor, handled>>
  /\ UNCHANGED emitted
  /\ UNCHANGED serverVars

\* ------------------------------------------- arrival of the client's events
\* an event emitted on a socket the server has closed meanwhile is lost
ReceiveClosed ==
  /\ c2s # << >>
  /\ sockets[Head(c2s).sock].st # "open"
  /\ c2s' = Tail(c2s)
  /\ UNCHANGED serverVars
  /\ UNCHANGED clientState

\* the client's private:join arrives
ReceiveJoin ==
  /\ c2s # << >>
  /\ Head(c2s).type = "private:join"
  /\ PrivateJoin(Head(c2s).sock, Head(c2s).payload.convId)
  /\ c2s' = Tail(c2s)
  /\ UNCHANGED clientState

\* the client's private:message arrives
ReceivePrivateMessage ==
  /\ c2s # << >>
  /\ Head(c2s).type = "private:message"
  /\ PrivateMessage(Head(c2s).sock, Head(c2s).payload)
  /\ c2s' = Tail(c2s)
  /\ UNCHANGED clientState

\* the client's message:seen arrives
ReceiveSeen ==
  /\ c2s # << >>
  /\ Head(c2s).type = "message:seen"
  /\ MessageSeen(Head(c2s).sock, Head(c2s).payload)
  /\ c2s' = Tail(c2s)
  /\ UNCHANGED clientState

\* ---------------------------------------------------------- specifications
\* the positions an in-flight handler can have in the list
Slots == 1..MaxInFlight

\* the presence registry: connects and disconnects of all sockets
NextPresence ==
  \/ \E hs \in Handshakes : Connection(hs[1], hs[2])
  \/ \E i \in Slots : SetOnlineResume(i)
  \/ \E s \in Conns : Disconnect(s)
  \/ \E i \in Slots : SetOfflineResume(i)
  \/ Tick

SpecPresence == Init /\ [][NextPresence]_vars

\* the presence registry together with the requests that name a user
NextAccount ==
  \/ \E hs \in Handshakes : Connection(hs[1], hs[2])
  \/ \E i \in Slots : SetOnlineResume(i)
  \/ \E s \in Conns : Disconnect(s)
  \/ \E i \in Slots : SetOfflineResume(i)
  \/ Tick
  \/ \E s \in Conns : PresencePing(s)
  \/ \E i \in Slots : PresencePingResume(i)
  \/ \E u \in Users : Login(u)

SpecAccount == Init /\ [][NextAccount]_vars

\* the requests of the senders
SendPayloads == {p \in Payloads : p.attachments = << >> /\ p.text = "a"}

\* the request a device sends, and sends again: every device has a tempId of
\* its own (s1 the first, the other devices the second)
RequestsOf(s) ==
  {p \in SendPayloads : p.tempId = (IF s = "s1" THEN TempId(1) ELSE TempId(2))}

\* the delivery coordinator: rooms and private:message
SendActions(handshakes) ==
  \/ \E hs \in handshakes : Connection(hs[1], hs[2])
  \/ \E i \in Slots : SetOnlineResume(i)
  \/ \E s \in Conns : Disconnect(s)
  \/ \E i \in Slots : SetOfflineResume(i)
  \/ \E s \in Conns, c \in Convs : SocketJoin(s, c)
  \/ \E s \in Conns, c \in Convs : SocketLeave(s, c)
  \/ \E s \in Conns : \E p \in RequestsOf(s) : SocketMessage(s, p)
  \/ \E i \in Slots : SendSave(i)
  \/ \E i \in Slots : SendUpdateConv(i)
  \/ \E i \in Slots : SendPopulate(i)

\* the two devices of a participant
NextSend == SendActions(SendHandshakes)

SpecSend == Init /\ [][NextSend]_vars

\* a participant and a user who is in no conversation
NextOutsider == SendActions(OutsiderHandshakes)

SpecOutsider == Init /\ [][NextOutsider]_vars

\* the delivery coordinator with store calls that may reject
NextSendFail ==
  \/ NextSend
  \/ \E i \in Slots : StoreError(i)

SpecSendFail == Init /\ [][NextSendFail]_vars

\* the socket the tab of Me connects with in SpecClient
TabSockets == {"s1"}

\* the client of Me, from boot to the loss of its connection, and the server
NextClient ==
  \/ \E s \in TabSockets : Connection(s, Me)
  \/ \E i \in Slots : SetOnlineResume(i)
  \/ \E s \in ClientSockets : Disconnect(s)
  \/ \E i \in Slots : SetOfflineResume(i)
  \/ \E s \in ClientSockets : OnConnect(s)
  \/ OnDisconnect
  \/ FetchConversations
  \/ \E c \in Convs : OpenConversation(c)
  \/ OpenConversationDone
  \/ \E text \in {"a"} : SendMessage(text)
  \/ \E t \in TempIds : SendTimeout(t)
  \/ ReceiveMessage
  \/ AckCallback
  \/ OnMessageSeen
  \/ FlushSeenQueue
  \/ ReceiveClosed
  \/ ReceiveJoin
  \/ ReceivePrivateMessage
  \/ ReceiveSeen
  \/ \E i \in Slots : SendSave(i)
  \/ \E i \in Slots : SendUpdateConv(i)
  \/ \E i \in Slots : SendPopulate(i)
  \/ \E i \in Slots : MessageSeenResume(i)

SpecClient == Init /\ [][NextClient]_vars

\* one session of the tab with the server: boot, connect, sends and their answers
NextSession ==
  \/ \E s \in TabSockets : Connection(s, Me)
  \/ \E i \in Slots : SetOnlineResume(i)
  \/ \E s \in TabSockets : OnConnect(s)
  \/ FetchConversations
  \/ OpenConversationDone
  \/ \E text \in {"a"} : SendMessage(text)
  \/ \E t \in TempIds : SendTimeout(t)
  \/ ReceiveJoin
  \/ ReceivePrivateMessage
  \/ \E i \in Slots : SendSave(i)
  \/ \E i \in Slots : SendUpdateConv(i)
  \/ \E i \in Slots : SendPopulate(i)
  \/ ReceiveMessage
  \/ AckCallback

\* the event loops of the server and of the tab run every handler that is
\* ready, the store answers, the network delivers, an armed timer fires; only
\* the user's submits are free
SessionFairness ==
  /\ \A s \in TabSockets : WF_vars(Connection(s, Me)) /\ WF_vars(OnConnect(s))
  /\ \A i \in Slots : /\ WF_vars(SetOnlineResume(i))
                      /\ WF_vars(SendSave(i))
                      /\ WF_vars(SendUpdateConv(i))
                      /\ WF_vars(SendPopulate(i))
  /\ WF_vars(FetchConversations)
  /\ WF_vars(OpenConversationDone)
  /\ \A t \in TempIds : WF_vars(SendTimeout(t))
  /\ WF_vars(ReceiveJoin)
  /\ WF_vars(ReceivePrivateMessage)
  /\ WF_vars(ReceiveMessage)
  /\ WF_vars(AckCallback)

SpecSession == Init /\ [][NextSession]_vars /\ SessionFairness

\* ================================================================== claims
IsBroadcast(e) == e.type = "private:message"

IsSendAck(e) == e.type = "ack"

PresenceInFlight ==
  \E i \in DOMAIN handlers : handlers[i].kind \in {"setOnline", "setOffline"}

\* C1: a user:online event is emitted only for a connect that took the user's
\* connection set from empty to non-empty, a user:offline event only for a
\* disconnect that emptied it.
C1_PresenceEventsOnlyOnTransition ==
  /\ presenceEmit.type = "user:online" => presenceEmit.sizeBefore = 0
  /\ presenceEmit.type = "user:offline" => presenceEmit.sizeAfter = 0

\* C2: when no setOnline / setOffline handler is in flight, the persisted
\* online flag of every user is true exactly when the user has a connection.
C2_OnlineIffConnected ==
  ~PresenceInFlight => \A u \in Users : users[u].online <=> (SocketsOf(u) # {})

\* C3: a step of a login, a presence-ping or a send request leaves the
\* persisted online flag and last-seen timestamp of every user unchanged.
C3_PresenceOnlyByRegistry ==
  [][ ( \/ \E u \in Users : Login(u)
        \/ \E s \in Conns : PresencePing(s)
        \/ \E i \in DOMAIN handlers : PresencePingResume(i)
        \/ \E s \in Conns, p \in Payloads : SocketMessage(s, p)
        \/ \E i \in DOMAIN handlers : SendSave(i) \/ SendUpdateConv(i) \/ SendPopulate(i) )
      => users' = users ]_vars

\* C4: a send by a user who is not a participant of the conversation is
\* acknowledged with forbidden; it persists no message, leaves the preview
\* alone and broadcasts nothing.
C4_NonParticipantSendRejected ==
  /\ \A id \in DOMAIN messages :
       messages[id].senderId \in Participants(messages[id].conversationId)
  /\ \A i \in DOMAIN handlers :
       handlers[i].kind = "send" =>
         handlers[i].doc.senderId \in Participants(handlers[i].payload.convId)
  /\ \A k \in DOMAIN trace :
       sockets[trace[k].conn].userId \notin Participants(trace[k].req.convId) =>
         /\ ~IsBroadcast(trace[k])
         /\ IsSendAck(trace[k]) => (~trace[k].ok /\ trace[k].error = "forbidden")

\* C5: a message is broadcast only when it is in the store, and an ok:true
\* ack of a message comes after the room broadcast of that message.
C5_PersistThenBroadcastThenAck ==
  \A k \in DOMAIN trace :
    /\ IsBroadcast(trace[k]) =>
         /\ trace[k].msg \in DOMAIN messages
         /\ \A i \in DOMAIN handlers :
              (handlers[i].kind = "send" /\ handlers[i].pc = "save") =>
                handlers[i].doc._id # trace[k].msg
    /\ (IsSendAck(trace[k]) /\ trace[k].ok) =>
         \E j \in 1..(k - 1) : IsBroadcast(trace[j]) /\ trace[j].msg = trace[k].msg

C5_Witness ==
  \E k \in DOMAIN trace : IsSendAck(trace[k]) /\ trace[k].ok

\* C6: every send that reached its broadcast is acknowledged next, on the
\* issuing connection, with ok:true, the request's tempId and the persisted
\* message; an issuing connection that is in the room gets both events.
C6_AckToIssuerWithTempId ==
  \A k \in DOMAIN trace :
    IsBroadcast(trace[k]) =>
      /\ k + 1 \in DOMAIN trace
      /\ LET b == trace[k]
             a == trace[k + 1]
         IN  /\ IsSendAck(a)
             /\ a.ok
             /\ a.conn = b.conn
             /\ a.req = b.req
             /\ a.tempId = b.req.tempId
             /\ a.msg = b.msg
             /\ a.snap = b.snap
             /\ a.msg \in DOMAIN messages
             /\ a.snap._id = a.msg
             /\ a.snap.conversationId = b.req.convId
             /\ a.snap.senderId = sockets[a.conn].userId
             /\ a.snap.text = b.req.text
             /\ b.conn \in b.to => a.to = {b.conn}

C6_Witness ==
  \E k \in DOMAIN trace :
    /\ IsBroadcast(trace[k])
    /\ trace[k].conn \in trace[k].to
    /\ k + 1 \in DOMAIN trace
    /\ IsSendAck(trace[k + 1])
    /\ trace[k + 1].to = {trace[k].conn}

\* C7: the room emit of a message goes to exactly the connections that are in
\* the room when it is issued, the issuing connection included, and no message
\* is broadcast twice.
C7_BroadcastReachesRoomOnce ==
  [][ \A k \in (Len(trace) + 1)..Len(trace') :
        IsBroadcast(trace'[k]) =>
          /\ trace'[k].to = rooms[trace'[k].req.convId]
          /\ \A j \in DOMAIN trace' :
               (IsBroadcast(trace'[j]) /\ trace'[j].msg = trace'[k].msg) => j = k ]_vars

C7_Witness ==
  \E k \in DOMAIN trace :
    /\ IsBroadcast(trace[k])
    /\ trace[k].to = {"s1", "s2"}
    /\ trace[k].conn \in trace[k].to

\* C8: the save of every accepted send adds one message under an identity no
\* stored message has, and leaves the stored messages as they are.
C8_EverySendCreatesFreshMessage ==
  [][ \A i \in DOMAIN handlers :
        ( /\ handlers[i].kind = "send"
          /\ handlers[i].pc = "save"
          /\ i \in DOMAIN handlers'
          /\ handlers'[i].kind = "send"
          /\ handlers'[i].pc = "updateConv"
          /\ handlers'[i].doc._id = handlers[i].doc._id )
        => /\ handlers[i].doc._id \notin DOMAIN messages
           /\ DOMAIN messages' = DOMAIN messages \cup {handlers[i].doc._id}
           /\ \A m \in DOMAIN messages : messages'[m] = messages[m] ]_vars

C8_Witness ==
  \E j, k \in DOMAIN trace :
    /\ j < k
    /\ IsSendAck(trace[j]) /\ trace[j].ok
    /\ IsSendAck(trace[k]) /\ trace[k].ok
    /\ trace[j].conn = trace[k].conn
    /\ trace[j].req = trace[k].req
    /\ trace[j].msg # trace[k].msg
    /\ {trace[j].msg, trace[k].msg} \subseteq DOMAIN messages

\* C9: for a message the client sent with tempId t, once the client has
\* handled both the ok ack and the room broadcast of that message (in
\* whichever order they arrived), its message list of the conversation holds
\* the message at most once: never both the optimistic entry t and the
\* canonical message.
C9_MessageAtMostOnceInList ==
  \A k, j \in handled :
    ( /\ trace[k].type = "ack" /\ trace[k].ok
      /\ trace[j].type = "private:message" /\ trace[j].msg = trace[k].msg ) =>
      LET list == CacheOf(trace[k].req.convId)
      IN  Cardinality({i \in DOMAIN list :
                         list[i]._id \in {trace[k].req.tempId, trace[k].msg}}) <= 1

\* the tempIds sendMessage has generated
Issued == {TempId(n) : n \in 1..(nextTemp - 1)}

\* a pending-send record (with its timer) exists, the payload waits in the
\* offline queue, or the optimistic entry still carries the status 'queued'
StillPending(t) ==
  \/ t \in pendingSends
  \/ \E i \in DOMAIN offlineQueue : offlineQueue[i].tempId = t
  \/ \E c \in DOMAIN messagesCache : \E i \in DOMAIN messagesCache[c] :
        messagesCache[c][i]._id = t /\ messagesCache[c][i].status = "queued"

\* the rendered entry of t carries the status 'failed'
MarkedFailed(t) ==
  \E i \in DOMAIN nodes : nodes[i].id = t /\ nodes[i].status = "failed"

\* the send was answered with a real message and no optimistic entry t is left
ResolvedToReal(t) ==
  /\ promises[t].st = "fulfilled"
  /\ promises[t].value > 0
  /\ \A c \in DOMAIN messagesCache :
       \A i \in DOMAIN messagesCache[c] : messagesCache[c][i]._id # t

ExactlyOne(a, b, c) == (a /\ ~b /\ ~c) \/ (~a /\ b /\ ~c) \/ (~a /\ ~b /\ c)

\* C10: in every reachable client state each tempId is in exactly one of
\* resolved-to-real-message, marked-failed, still-pending; and an ack, a timer
\* firing or a broadcast never takes a tempId out of resolved or failed.
C10_ExactlyOneStatePerTempId ==
  /\ [](\A t \in Issued :
          ExactlyOne(ResolvedToReal(t), MarkedFailed(t), StillPending(t)))
  /\ [][ (AckCallback \/ ReceiveMessage \/ \E u \in TempIds : SendTimeout(u)) =>
           \A t \in Issued :
             /\ ResolvedToReal(t) => ResolvedToReal(t)'
             /\ MarkedFailed(t) => MarkedFailed(t)' ]_vars

\* the payload of tempId t has been emitted to the server
Transmitted(t) == \E i \in DOMAIN emitted : emitted[i] = t

\* an entry with identity t is in the message cache
OptimisticEntry(t) ==
  \E c \in DOMAIN messagesCache :
    \E i \in DOMAIN messagesCache[c] : messagesCache[c][i]._id = t

\* C11: every tempId whose payload went to the server (sent while connected,
\* or queued and drained) eventually leaves the pending state: its optimistic
\* entry is replaced (no entry with the tempId is left) or marked failed.
C11_EveryTempIdLeavesPending ==
  \A t \in TempIds :
    Transmitted(t) ~> (~OptimisticEntry(t) \/ MarkedFailed(t))

\* C12: when the client handles an ack with ok:true for tempId t, the entry
\* keyed by t in the message cache is replaced by the canonical message: at
\* its place stands the message of the ack, with the server-assigned id and
\* no sending status.
C12_AckReplacesOptimistic ==
  [][ \A t \in TempIds :
        ( /\ AckCallback
          /\ trace[NextEvent].ok
          /\ trace[NextEvent].req.tempId = t
          /\ OptimisticEntry(t) ) =>
          LET c == trace[NextEvent].req.convId
          IN  /\ ~OptimisticEntry(t)'
              /\ \A i \in DOMAIN CacheOf(c) :
                   CacheOf(c)[i]._id = t =>
                     CacheOf(c)'[i] = CacheEntry(trace[NextEvent].snap) ]_vars

\* C13: when the timer of a send fires (the send got no ok ack in time), the
\* optimistic entry of its tempId is still in the message list and is marked
\* failed, its pending record is removed, and nothing is transmitted by that
\* step; and an entry marked failed is in the message list after every step.
C13_FailedEntryStaysMarked ==
  [][ \A t \in TempIds :
        /\ SendTimeout(t) =>
             /\ OptimisticEntry(t)'
             /\ MarkedFailed(t)'
             /\ t \notin pendingSends'
             /\ emitted' = emitted
             /\ c2s' = c2s
        /\ MarkedFailed(t) => (OptimisticEntry(t)' /\ MarkedFailed(t)') ]_vars

\* setInterval(() => { if(isConnected) flushOfflineQueue(); }, 30000)
PeriodicFlush ==
  /\ isConnected
  /\ c2s' = c2s \o FlushOfflineQueue(cSock)
  /\ emitted' = emitted \o [i \in DOMAIN FlushOfflineQueue(cSock) |->
                              FlushOfflineQueue(cSock)[i].payload.tempId]
  /\ ackCallbacks' = [t \in DOMAIN ackCallbacks \cup
                             {offlineQueue[i].tempId : i \in DOMAIN offlineQueue} |->
                        IF \E i \in DOMAIN offlineQueue : offlineQueue[i].tempId = t
                          THEN "flush" ELSE ackCallbacks[t]]
  /\ offlineQueue' = Drained(offlineQueue)
  /\ UNCHANGED <<cSock, isConnected, cUsed, clientConvs, activeConv, opening, opens,
                 messagesCache, nodes, pendingSends, promises, nextTemp, seenQueue,
                 seenTimer, cursor, handled>>
  /\ UNCHANGED serverVars

\* the tab over connects and disconnects of its socket: sends made while
\* connected and while disconnected, their timers and the flushes; no request
\* is answered, every ack is still outstanding
NextReconnect ==
  \/ \E s \in ClientSockets : Connection(s, Me)
  \/ \E i \in Slots : SetOnlineResume(i)
  \/ \E s \in ClientSockets : Disconnect(s)
  \/ \E i \in Slots : SetOfflineResume(i)
  \/ \E s \in ClientSockets : OnConnect(s)
  \/ OnDisconnect
  \/ FetchConversations
  \/ OpenConversationDone
  \/ \E text \in {"a"} : SendMessage(text)
  \/ \E t \in TempIds : SendTimeout(t)
  \/ PeriodicFlush

SpecReconnect == Init /\ [][NextReconnect]_vars

\* C14: the payload of a tempId is transmitted at most once, over connects,
\* disconnects, flushes on connect and periodic flushes, while no ack arrives;
\* and a payload that was transmitted is no longer in the offline queue, so
\* that no later flush transmits it again.
C14_PayloadTransmittedAtMostOnce ==
  /\ \A i, j \in DOMAIN emitted : i # j => emitted[i] # emitted[j]
  /\ \A i \in DOMAIN offlineQueue : ~Transmitted(offlineQueue[i].tempId)

\* one payload was sent directly and timed out, another was queued while
\* disconnected and flushed on the second connection
C14_Witness ==
  /\ cSock = "s2"
  /\ "s1" \in cUsed
  /\ \E t, u \in TempIds :
       /\ t # u
       /\ Transmitted(t) /\ Transmitted(u)
       /\ t \in DOMAIN ackCallbacks /\ ackCallbacks[t] = "send"
       /\ promises[t].st = "rejected"
       /\ u \in DOMAIN ackCallbacks /\ ackCallbacks[u] = "flush"

\* a submit made while the socket is not connected
SubmitOffline(text) ==
  /\ ~isConnected
  /\ SendMessageUpTo(text, MaxQueued)

\* the tab before and at its first connection: submits made while
\* disconnected, then the connect handler
NextQueue ==
  \/ FetchConversations
  \/ OpenConversationDone
  \/ \E text \in {"a"} : SubmitOffline(text)
  \/ \E s \in TabSockets : Connection(s, Me)
  \/ \E i \in Slots : SetOnlineResume(i)
  \/ \E s \in TabSockets : OnConnect(s)
  \/ PeriodicFlush

SpecQueue == Init /\ [][NextQueue]_vars

\* C15: the offline queue never holds more than MAX_OFFLINE_QUEUE payloads;
\* a submit while disconnected puts its payload at the tail, and when the
\* queue was full it drops the oldest payload and keeps the others in order.
C15_OfflineQueueBounded ==
  /\ [](Len(offlineQueue) <= MAX_OFFLINE_QUEUE)
  /\ [][ (~isConnected /\ nextTemp' = nextTemp + 1) =>
           /\ Len(offlineQueue') >= 1
           /\ offlineQueue'[Len(offlineQueue')].tempId = TempId(nextTemp)
           /\ IF Len(offlineQueue) = MAX_OFFLINE_QUEUE
                THEN /\ Len(offlineQueue') = MAX_OFFLINE_QUEUE
                     /\ \A i \in 1..(MAX_OFFLINE_QUEUE - 1) :
                          offlineQueue'[i] = offlineQueue[i + 1]
                ELSE SubSeq(offlineQueue', 1, Len(offlineQueue)) = offlineQueue ]_vars

\* the queue is full and its oldest payload has been dropped
C15_Witness ==
  /\ ~isConnected
  /\ Len(offlineQueue) = MAX_OFFLINE_QUEUE
  /\ offlineQueue[1].tempId # TempId(1)
  /\ offlineQueue[MAX_OFFLINE_QUEUE].tempId = TempId(nextTemp - 1)

IsSendRequest(e) == e.type = "private:message"

\* C16: the connect handler drains the offline queue in FIFO order: the
\* send-message requests it emits on the new socket carry the queued payloads,
\* one request per payload, in the order they were queued, and the queue is
\* empty afterwards.
C16_QueueDrainedFifo ==
  [][ \A s \in ClientSockets :
        OnConnect(s) =>
          LET sent == SelectSeq(SubSeq(c2s', Len(c2s) + 1, Len(c2s')), IsSendRequest)
          IN  /\ offlineQueue' = << >>
              /\ Len(sent) = Len(offlineQueue)
              /\ \A i \in DOMAIN offlineQueue :
                   sent[i] = [type |-> "private:message", sock |-> s,
                              payload |-> offlineQueue[i]] ]_vars

\* two payloads queued while disconnected have been emitted on the second
\* connection, the older one first
C16_Witness ==
  /\ cSock = "s2"
  /\ "s1" \in cUsed
  /\ offlineQueue = << >>
  /\ \E i, j \in DOMAIN c2s :
       /\ i < j
       /\ IsSendRequest(c2s[i]) /\ c2s[i].sock = "s2" /\ c2s[i].payload.tempId = TempId(1)
       /\ IsSendRequest(c2s[j]) /\ c2s[j].sock = "s2" /\ c2s[j].payload.tempId = TempId(2)

\* ---------------------------------------------------------------------------
\* POST /api/conversations: create-or-find of a private conversation

\* the values of req.body.user: the users, an unknown name, and none
RequestedUsers == Users \cup {"u9", ""}

\* the ids of Conversation documents, in the order they are inserted
ConvIds == <<"c1", "c2", "c3", "c4", "c5">>

\* res.json / res.status(...).json of the handler, to the user `me`
ConvResponse(me, user, ok, conv, error) ==
  [type |-> "http:conversation", conn |-> NoSock, req |-> [me |-> me, user |-> user],
   to |-> {}, msg |-> NoMsg, ok |-> ok, tempId |-> NoTemp, snap |-> conv, error |-> error]

\* the requests made so far: those in flight and those answered
ConvRequests ==
  Cardinality({i \in DOMAIN handlers : handlers[i].kind = "conv"})
    + Cardinality({k \in DOMAIN trace : trace[k].type = "http:conversation"})

\* Conversation.findOne({type: 'private', participants: {$all: [a, b]}}):
\* the documents whose participants array holds a and holds b
FindConversation(a, b) ==
  {c \in DOMAIN conversations :
     \A u \in {a, b} :
       \E k \in DOMAIN conversations[c].participants :
         conversations[c].participants[k] = u}

\* the handler up to `await Conversation.findOne(...)`; the User lookup reads
\* a collection that nothing modifies
ConversationPost(me, user) ==
  /\ me \in Users
  /\ ConvRequests < MaxConvRequests
  /\ IF user = ""
       THEN /\ trace' = Append(trace, ConvResponse(me, user, FALSE, NoConv, "missing_user"))
            /\ UNCHANGED handlers
       ELSE IF user \notin Users
         THEN /\ trace' = Append(trace, ConvResponse(me, user, FALSE, NoConv, "other_not_found"))
              /\ UNCHANGED handlers
         ELSE /\ Len(handlers) < MaxInFlight
              /\ handlers' = Append(handlers,
                   [kind |-> "conv", pc |-> "find", me |-> me, other |-> user, conv |-> NoConv])
              /\ UNCHANGED trace
  /\ UNCHANGED <<sockets, socketUser, userSockets, rooms, users, conversations,
                 messages, persisted, nextId, presenceEmit, now>>
  /\ UNCHANGED clientVars

\* findOne is evaluated: with a document the handler goes on to findById,
\* with none it constructs the Conversation and calls save()
ConversationFind(i) ==
  /\ i \in DOMAIN handlers
  /\ handlers[i].kind = "conv"
  /\ handlers[i].pc = "find"
  /\ LET h == handlers[i]
         found == FindConversation(h.me, h.other)
     IN  IF found = {}
           THEN handlers' = ReplaceAt(handlers, i, [h EXCEPT !.pc = "save"])
           ELSE \E c \in found :
                  handlers' = ReplaceAt(handlers, i, [h EXCEPT !.pc = "populate", !.conv = c])
  /\ UNCHANGED <<sockets, socketUser, userSockets, rooms, users, conversations,
                 messages, persisted, nextId, trace, presenceEmit, now>>
  /\ UNCHANGED clientVars

\* conv.save(): the document {participants: [req.user._id, other._id]} is
\* inserted under a fresh id
ConversationSave(i) ==
  /\ i \in DOMAIN handlers
  /\ handlers[i].kind = "conv"
  /\ handlers[i].pc = "save"
  /\ Cardinality(DOMAIN conversations) < Len(ConvIds)
  /\ LET h == handlers[i]
         id == ConvIds[Cardinality(DOMAIN conversations) + 1]
     IN  /\ conversations' = MapSet(conversations, id,
               [participants |-> <<h.me, h.other>>, lastMessageText |-> "",
                lastMessageAt |-> 0])
         /\ handlers' = ReplaceAt(handlers, i, [h EXCEPT !.pc = "populate", !.conv = id])
  /\ UNCHANGED <<sockets, socketUser, userSockets, rooms, users,
                 messages, persisted, nextId, trace, presenceEmit, now>>
  /\ UNCHANGED clientVars

\* Conversation.findById(conv._id).populate(...) and res.json({ok: true, conversation})
ConversationPopulate(i) ==
  /\ i \in DOMAIN handlers
  /\ handlers[i].kind = "conv"
  /\ handlers[i].pc = "populate"
  /\ LET h == handlers[i] IN
       trace' = Append(trace, ConvResponse(h.me, h.other, TRUE, h.conv, ""))
  /\ handlers' = RemoveAt(handlers, i)
  /\ UNCHANGED <<sockets, socketUser, userSockets, rooms, users, conversations,
                 messages, persisted, nextId, presenceEmit, now>>
  /\ UNCHANGED clientVars

NextConversations ==
  \/ \E me \in Users : \E user \in RequestedUsers : ConversationPost(me, user)
  \/ \E i \in Slots : ConversationFind(i)
  \/ \E i \in Slots : ConversationSave(i)
  \/ \E i \in Slots : ConversationPopulate(i)

SpecConversations == Init /\ [][NextConversations]_vars

\* the private conversations of the unordered pair {a, b}
ConversationsOf(a, b) ==
  {c \in DOMAIN conversations :
     {conversations[c].participants[k] : k \in DOMAIN conversations[c].participants} = {a, b}}

\* C17: the store holds at most one conversation per unordered pair of
\* users, and two answered create-or-find requests for the same pair carry
\* the same conversation id, however the requests interleave.
C17_OneConversationPerPair ==
  /\ \A a, b \in Users : Cardinality(ConversationsOf(a, b)) <= 1
  /\ \A j, k \in DOMAIN trace :
       ( /\ trace[j].type = "http:conversation" /\ trace[j].ok
         /\ trace[k].type = "http:conversation" /\ trace[k].ok
         /\ {trace[j].req.me, trace[j].req.user} = {trace[k].req.me, trace[k].req.user} )
         => trace[j].snap = trace[k].snap

\* C18: every conversation in the store has exactly two participants, and
\* they are two different users, also after a request that names the caller.
C18_TwoDistinctParticipants ==
  \A c \in DOMAIN conversations :
    /\ Len(conversations[c].participants) = 2
    /\ conversations[c].participants[1] # conversations[c].participants[2]

\* ---------------------------------------------------------------------------
\* message:edit, message:delete

\* variant: save() writes the loaded document back as a whole
SaveModified_WholeDocument(stored, doc, paths) == doc

\* doc.save() of a loaded document: an update that sets the modified paths
\* and leaves every other field of the stored document as it is
SaveModified(stored, doc, paths) ==
  [f \in DOMAIN stored |-> IF f \in paths THEN doc[f] ELSE stored[f]]

\* the message:seen, message:edit and message:delete requests made so far
UpdateRequests ==
  Cardinality({i \in DOMAIN handlers : handlers[i].kind \in {"seen", "edit", "delete"}})
    + Cardinality({k \in DOMAIN trace :
                     trace[k].type \in {"seen:ack", "edit:ack", "delete:ack"}})

\* socket.on('message:seen') received from socket s
SocketSeen(s, payload) ==
  /\ UpdateRequests < MaxUpdates
  /\ MessageSeen(s, payload)
  /\ UNCHANGED clientVars

\* socket.on('message:edit') up to `await Message.findById(messageId)`
SocketEdit(s, payload) ==
  /\ sockets[s].st = "open"
  /\ UpdateRequests < MaxUpdates
  /\ Len(handlers) < MaxInFlight
  /\ handlers' = Append(handlers,
       [kind |-> "edit", pc |-> "find", conn |-> s, payload |-> payload, doc |-> NoMsg])
  /\ UNCHANGED <<sockets, socketUser, userSockets, rooms, users, conversations,
                 messages, persisted, nextId, trace, presenceEmit, now>>
  /\ UNCHANGED clientVars

\* variant: the sender test of message:edit is left out
EditError_AnyRequester(id, uid) ==
  IF id \notin DOMAIN messages THEN "not_found" ELSE ""

\* the two early returns of message:edit: `!msg`, and
\* String(msg.senderId) !== String(socket.data.userId); "" when neither applies
EditError(id, uid) ==
  IF id \notin DOMAIN messages THEN "not_found"
  ELSE IF messages[id].senderId # uid THEN "not_allowed"
  ELSE ""

\* findById has answered: not_found, not_allowed, or the loaded document gets
\* its text and editedAt and save() is called
EditFind(i) ==
  /\ i \in DOMAIN handlers
  /\ handlers[i].kind = "edit"
  /\ handlers[i].pc = "find"
  /\ LET h == handlers[i]
         id == h.payload.messageId
         error == EditError(id, sockets[h.conn].userId)
     IN  IF error # ""
             THEN /\ trace' = Append(trace,
                       UpdateAck("edit:ack", h.conn, h.payload, FALSE, error))
                  /\ handlers' = RemoveAt(handlers, i)
             ELSE /\ handlers' = ReplaceAt(handlers, i,
                       [h EXCEPT !.pc = "save",
                                 !.doc = [messages[id] EXCEPT !.text = h.payload.text,
                                                              !.editedAt = now]])
                  /\ UNCHANGED trace
  /\ UNCHANGED <<sockets, socketUser, userSockets, rooms, users, conversations,
                 messages, persisted, nextId, presenceEmit, now>>
  /\ UNCHANGED clientVars

\* variant: the edit also marks the delete flags of the loaded document modified
EditPaths_AndFlags == {"text", "editedAt", "deleted", "deletedForAll"}

\* the paths message:edit assigns: msg.text = text; msg.editedAt = new Date()
EditPaths == {"text", "editedAt"}

\* msg.save() is applied; Message.findById(msg._id).populate(...) is issued
EditSave(i) ==
  /\ i \in DOMAIN handlers
  /\ handlers[i].kind = "edit"
  /\ handlers[i].pc = "save"
  /\ LET h == handlers[i]
         id == h.doc._id
     IN  /\ messages' = [messages EXCEPT
               ![id] = SaveModified(messages[id], h.doc, EditPaths)]
         /\ UNCHANGED persisted
         /\ handlers' = ReplaceAt(handlers, i, [h EXCEPT !.pc = "populate"])
  /\ UNCHANGED <<sockets, socketUser, userSockets, rooms, users, conversations,
                 nextId, trace, presenceEmit, now>>
  /\ UNCHANGED clientVars

\* the populated document is emitted to the room as message:edited, then cb({ok: true})
EditPopulate(i) ==
  /\ i \in DOMAIN handlers
  /\ handlers[i].kind = "edit"
  /\ handlers[i].pc = "populate"
  /\ LET h == handlers[i] IN
       trace' = trace \o <<UpdateEmit("message:edited", h.conn, h.payload, messages[h.doc._id]),
                           UpdateAck("edit:ack", h.conn, h.payload, TRUE, "")>>
  /\ handlers' = RemoveAt(handlers, i)
  /\ UNCHANGED <<sockets, socketUser, userSockets, rooms, users, conversations,
                 messages, persisted, nextId, presenceEmit, now>>
  /\ UNCHANGED clientVars

\* socket.on('message:delete') up to `await Message.findById(messageId)`
SocketDelete(s, payload) ==
  /\ sockets[s].st = "open"
  /\ UpdateRequests < MaxUpdates
  /\ Len(handlers) < MaxInFlight
  /\ handlers' = Append(handlers,
       [kind |-> "delete", pc |-> "find", conn |-> s, payload |-> payload, doc |-> NoMsg])
  /\ UNCHANGED <<sockets, socketUser, userSockets, rooms, users, conversations,
                 messages, persisted, nextId, trace, presenceEmit, now>>
  /\ UNCHANGED clientVars

\* variant: the sender test of the forAll branch is left out
DeleteError_AnyRequester(id, uid, forAll) ==
  IF id \notin DOMAIN messages THEN "not_found" ELSE ""

\* the early returns of message:delete: `!msg`, and in the forAll branch
\* String(msg.senderId) !== String(socket.data.userId); "" when neither applies
DeleteError(id, uid, forAll) ==
  IF id \notin DOMAIN messages THEN "not_found"
  ELSE IF forAll /\ messages[id].senderId # uid THEN "not_allowed"
  ELSE ""

\* findById has answered: not_found; forAll by someone else than the sender
\* is not_allowed; otherwise the flags are set on the loaded document and
\* save() is called
DeleteFind(i) ==
  /\ i \in DOMAIN handlers
  /\ handlers[i].kind = "delete"
  /\ handlers[i].pc = "find"
  /\ LET h == handlers[i]
         id == h.payload.messageId
         error == DeleteError(id, sockets[h.conn].userId, h.payload.forAll)
     IN  IF error # ""
             THEN /\ trace' = Append(trace,
                       UpdateAck("delete:ack", h.conn, h.payload, FALSE, error))
                  /\ handlers' = RemoveAt(handlers, i)
             ELSE /\ handlers' = ReplaceAt(handlers, i,
                       [h EXCEPT !.pc = "save",
                                 !.doc = IF h.payload.forAll
                                           THEN [messages[id] EXCEPT !.deleted = TRUE,
                                                                    !.deletedForAll = TRUE,
                                                                    !.text = ""]
                                           ELSE [messages[id] EXCEPT !.deleted = TRUE]])
                  /\ UNCHANGED trace
  /\ UNCHANGED <<sockets, socketUser, userSockets, rooms, users, conversations,
                 messages, persisted, nextId, presenceEmit, now>>
  /\ UNCHANGED clientVars

\* msg.save() is applied, message:deleted goes to the room, then cb({ok: true})
DeleteSave(i) ==
  /\ i \in DOMAIN handlers
  /\ handlers[i].kind = "delete"
  /\ handlers[i].pc = "save"
  /\ LET h == handlers[i]
         id == h.doc._id
         paths == IF h.payload.forAll THEN {"deleted", "deletedForAll", "text"}
                                      ELSE {"deleted"}
     IN  /\ messages' = [messages EXCEPT ![id] = SaveModified(messages[id], h.doc, paths)]
         /\ UNCHANGED persisted
         /\ trace' = trace \o <<UpdateEmit("message:deleted", h.conn, h.payload, h.doc),
                                UpdateAck("delete:ack", h.conn, h.payload, TRUE, "")>>
  /\ handlers' = RemoveAt(handlers, i)
  /\ UNCHANGED <<sockets, socketUser, userSockets, rooms, users, conversations,
                 nextId, presenceEmit, now>>
  /\ UNCHANGED clientVars

\* the sender u1 and the other participant u2, one socket each
SeenHandshakes == {<<"s1", "u1">>, <<"s3", "u2">>}
SeenSockets == {"s1", "s3"}

\* the first message of the run is the one marked, edited and deleted
SeenPayloads == {[convId |-> c, messageIds |-> {1}] : c \in Convs}
EditPayloads == {[messageId |-> 1, text |-> "b"]}
DeletePayloads == {[messageId |-> 1, forAll |-> b] : b \in BOOLEAN}

\* the send that creates the message the other requests are about
SendFirst(s, p) ==
  /\ nextId = 1
  /\ SocketMessage(s, p)

\* the message store under one send and the mark-seen, edit and delete
\* requests of the two participants, their connects and the reader's disconnect
NextSeen ==
  \/ \E hs \in SeenHandshakes : Connection(hs[1], hs[2])
  \/ \E i \in Slots : SetOnlineResume(i)
  \/ \E s \in {"s3"} : Disconnect(s)
  \/ \E i \in Slots : SetOfflineResume(i)
  \/ \E p \in RequestsOf("s1") : SendFirst("s1", p)
  \/ \E i \in Slots : SendSave(i)
  \/ \E i \in Slots : SendUpdateConv(i)
  \/ \E i \in Slots : SendPopulate(i)
  \/ \E s \in SeenSockets : \E p \in SeenPayloads : SocketSeen(s, p)
  \/ \E i \in Slots : MessageSeenResume(i)
  \/ \E s \in SeenSockets : \E p \in EditPayloads : SocketEdit(s, p)
  \/ \E i \in Slots : EditFind(i)
  \/ \E i \in Slots : EditSave(i)
  \/ \E i \in Slots : EditPopulate(i)
  \/ \E s \in SeenSockets : \E p \in DeletePayloads : SocketDelete(s, p)
  \/ \E i \in Slots : DeleteFind(i)
  \/ \E i \in Slots : DeleteSave(i)

SpecSeen == Init /\ [][NextSeen]_vars

\* C19: the seen-set of every message holds only participants of the
\* message's conversation and never the sender of the message.
C19_SeenOnlyByOtherParticipants ==
  \A m \in DOMAIN messages :
    SeenSet(messages[m]) \subseteq
      (Participants(messages[m].conversationId) \ {messages[m].senderId})

\* C20: over every step (a send, an edit, a delete of either variant, a
\* mark-seen, a connect, a disconnect and the steps their handlers resume
\* with) every stored message stays stored and its seen-set after the step
\* contains its seen-set before the step.
C20_SeenSetNeverShrinks ==
  [][ \A m \in DOMAIN messages :
        /\ m \in DOMAIN messages'
        /\ SeenSet(messages[m]) \subseteq SeenSet(messages'[m]) ]_vars

\* an edit has saved a document it had loaded before the message was marked
\* seen, and the stored message still has its seen-set
C20_Witness ==
  \E i \in DOMAIN handlers :
    /\ handlers[i].kind = "edit"
    /\ handlers[i].pc = "populate"
    /\ handlers[i].doc.seenBy = << >>
    /\ messages[handlers[i].doc._id].seenBy # << >>
    /\ messages[handlers[i].doc._id].text = "b"

\* C21: mark-seen is idempotent on the store: for every connected reader and
\* every mark-seen request, applying the request's update twice to the
\* stored messages gives what applying it once gives; and no seen-set ever
\* holds an identity twice, however often a request is repeated.
C21_MarkSeenIdempotent ==
  /\ \A s \in SeenSockets : \A p \in SeenPayloads :
       LET uid == sockets[s].userId
           once == MarkSeen(messages, p.messageIds, uid)
       IN  MarkSeen(once, p.messageIds, uid) = once
  /\ \A m \in DOMAIN messages :
       \A j, k \in DOMAIN messages[m].seenBy :
         j # k => messages[m].seenBy[j] # messages[m].seenBy[k]

\* the same mark-seen request of one socket has been applied twice to a
\* stored message
C21_Witness ==
  \E j, k \in DOMAIN trace :
    /\ j < k
    /\ trace[j].type = "seen:ack" /\ trace[j].ok
    /\ trace[k].type = "seen:ack" /\ trace[k].ok
    /\ trace[j].conn = trace[k].conn
    /\ trace[j].req = trace[k].req
    /\ \E m \in trace[k].req.messageIds :
         /\ m \in DOMAIN messages
         /\ messages[m].seenBy = <<sockets[trace[k].conn].userId>>

\* ---------------------------------------------------------------------------
\* GET /api/conversations/:id/messages

\* res.json({ok: true, messages: out}): the ids of the listed messages, in order
ListResponse(c, q) ==
  [type |-> "http:messages", conn |-> NoSock, req |-> [convId |-> c], to |-> {},
   msg |-> NoMsg, ok |-> TRUE, tempId |-> NoTemp, snap |-> q, error |-> ""]

\* the route: Message.find({conversationId}).sort({createdAt: 1}) and the response
GetMessages(c) ==
  /\ Cardinality({k \in DOMAIN trace : trace[k].type = "http:messages"}) < MaxLists
  /\ \E q \in ListMessages(c) : trace' = Append(trace, ListResponse(c, q))
  /\ UNCHANGED <<sockets, socketUser, userSockets, rooms, users, conversations,
                 messages, persisted, nextId, handlers, presenceEmit, now>>
  /\ UNCHANGED clientVars

\* the one socket of the sender
ListHandshakes == {<<"s1", "u1">>}

\* one sender sending into one conversation, one request after the other, the
\* wall clock, and the listing of the conversation
NextList ==
  \/ \E hs \in ListHandshakes : Connection(hs[1], hs[2])
  \/ \E i \in Slots : SetOnlineResume(i)
  \/ \E p \in RequestsOf("s1") : SocketMessage("s1", p)
  \/ \E i \in Slots : SendSave(i)
  \/ \E i \in Slots : SendUpdateConv(i)
  \/ \E i \in Slots : SendPopulate(i)
  \/ Tick
  \/ \E c \in Convs : GetMessages(c)

SpecList == Init /\ [][NextList]_vars

\* C22: every listing of a conversation returns the messages of the one
\* sender in the order their sends were submitted (the order in which the
\* handler assigned their ids), also when two messages carry the same
\* creation timestamp.
C22_ListedInSubmissionOrder ==
  \A k \in DOMAIN trace :
    trace[k].type = "http:messages" =>
      \A i, j \in DOMAIN trace[k].snap : i < j => trace[k].snap[i] < trace[k].snap[j]

\* the place of message m in the order in which the store applied the inserts
PersistIndex(m) == CHOOSE k \in DOMAIN persisted : persisted[k] = m

\* C23: for any two messages of one conversation, a connection that receives
\* both private:message broadcasts receives them in the order in which the
\* store persisted the two messages.
C23_BroadcastsInPersistOrder ==
  \A j, k \in DOMAIN trace :
    ( /\ j < k
      /\ trace[j].type = "private:message"
      /\ trace[k].type = "private:message"
      /\ trace[j].req.convId = trace[k].req.convId
      /\ trace[j].to \cap trace[k].to # {} )
      => PersistIndex(trace[j].msg) < PersistIndex(trace[k].msg)

\* C24: a connection is in the room of a conversation only if its user is a
\* participant of the conversation, and every event emitted to the room of a
\* conversation goes to connections of its participants only.
C24_OnlyParticipantsJoinRooms ==
  /\ \A c \in Convs : \A s \in rooms[c] : sockets[s].userId \in Participants(c)
  /\ \A k \in DOMAIN trace :
       trace[k].type = "private:message" =>
         \A s \in trace[k].to : sockets[s].userId \in Participants(trace[k].req.convId)

C27_TombstoneIsEmpty ==
  \A m \in DOMAIN messages :
    messages[m].deletedForAll =>
      /\ messages[m].text = ""
      /\ messages[m].attachments = << >>

\* C28: the step that applies a delete that is not for everyone changes
\* nothing another participant can observe: the stored messages, which the
\* listing returns to every user, are unchanged, and every event the step
\* issues goes to connections of the requester only.
C28_LocalDeleteUnobservable ==
  [][ \A i \in Slots :
        (DeleteSave(i) /\ ~handlers[i].payload.forAll) =>
          /\ messages' = messages
          /\ \A k \in (Len(trace) + 1)..Len(trace') :
               \A s \in trace'[k].to :
                 sockets[s].userId = sockets[handlers[i].conn].userId ]_vars

\* the sender u1 and u3, who is in no conversation, deleting u1's message
NextOutsiderDelete ==
  \/ \E hs \in OutsiderHandshakes : Connection(hs[1], hs[2])
  \/ \E i \in Slots : SetOnlineResume(i)
  \/ \E p \in RequestsOf("s1") : SendFirst("s1", p)
  \/ \E i \in Slots : SendSave(i)
  \/ \E i \in Slots : SendUpdateConv(i)
  \/ \E i \in Slots : SendPopulate(i)
  \/ \E p \in DeletePayloads : SocketDelete("s4", p)
  \/ \E i \in Slots : DeleteFind(i)
  \/ \E i \in Slots : DeleteSave(i)

SpecOutsiderDelete == Init /\ [][NextOutsiderDelete]_vars

\* C29: a delete request of either variant by a user who is not a
\* participant of the message's conversation is refused: its handler never
\* gets to save the message, and the acknowledgment of the request is a
\* failing one.
C29_OutsiderDeleteRejected ==
  /\ \A i \in DOMAIN handlers :
       (handlers[i].kind = "delete" /\ handlers[i].pc = "save") =>
         sockets[handlers[i].conn].userId
           \in Participants(handlers[i].doc.conversationId)
  /\ \A k \in DOMAIN trace :
       ( /\ trace[k].type = "delete:ack"
         /\ trace[k].req.messageId \in DOMAIN messages
         /\ sockets[trace[k].conn].userId
              \notin Participants(messages[trace[k].req.messageId].conversationId) )
         => ~trace[k].ok

\* C30: the save of an edit changes only the text and the edit timestamp of
\* its message: every other field of that message (identity, conversation,
\* sender, attachments, delete flags, seen-set, creation time) and every
\* other message are as before, and the rest of the edit handler writes
\* nothing; and over every step every stored message stays in the store.
C30_EditFrame ==
  [][ /\ \A i \in Slots :
           /\ EditSave(i) =>
                LET id == handlers[i].doc._id IN
                  /\ \A f \in (DOMAIN messages[id]) \ {"text", "editedAt"} :
                       messages'[id][f] = messages[id][f]
                  /\ \A m \in DOMAIN messages : m # id => messages'[m] = messages[m]
           /\ (EditFind(i) \/ EditPopulate(i)) => messages' = messages
      /\ DOMAIN messages \subseteq DOMAIN messages' ]_vars

\* an edit has been saved over a message that was deleted after the edit
\* had loaded it; the delete flag is that of the store, the text is the edit's
C30_Witness ==
  \E i \in DOMAIN handlers :
    /\ handlers[i].kind = "edit"
    /\ handlers[i].pc = "populate"
    /\ ~handlers[i].doc.deleted
    /\ messages[handlers[i].doc._id].deleted
    /\ messages[handlers[i].doc._id].text = "b"

\* ------------------------------------------------------------------ typing
\* the typing events a socket sends: the handler returns on an empty convId
TypingPayloads == [convId : Convs \cup {""}, typing : BOOLEAN]

\* variant: io.to(room), which also reaches the socket that is typing
TypingEmit_WholeRoom(convId, s, req) ==
  [type |-> "typing", conn |-> s, req |-> req, to |-> rooms[convId],
   msg |-> NoMsg, ok |-> TRUE, tempId |-> NoTemp, snap |-> NoMsg, error |-> ""]

\* socket.to(String(convId)).emit('typing', {convId, userId, typing})
TypingEmit(convId, s, req) ==
  [type |-> "typing", conn |-> s, req |-> req, to |-> rooms[convId] \ {s},
   msg |-> NoMsg, ok |-> TRUE, tempId |-> NoTemp, snap |-> NoMsg, error |-> ""]

\* socket.on('typing'): `if (!convId) return`, then the emit to the room
SocketTyping(s, payload) ==
  /\ sockets[s].st = "open"
  /\ Cardinality({k \in DOMAIN trace : trace[k].type = "typing"}) < MaxTyping
  /\ trace' = IF payload.convId = ""
                THEN trace
                ELSE Append(trace, TypingEmit(payload.convId, s, payload))
  /\ UNCHANGED <<sockets, socketUser, userSockets, rooms, users, conversations,
                 messages, persisted, nextId, handlers, presenceEmit, now>>
  /\ UNCHANGED clientVars

\* ------------------------------------------------------- rejected requests
\* the sender u1 and a socket whose handshake carried no valid token
RejectHandshakes == {<<"s1", "u1">>, <<"s4", NoUser>>}
RejectSockets == {"s1", "s4"}

\* one message and one mark-seen, edit or delete request about it, made by
\* the sender or by the socket without a user, with the room joined and
\* store calls that may reject
\* the requests of a run of SpecReject
RejectSeen(s, p) == UpdateRequests < MaxRejects /\ SocketSeen(s, p)
RejectEdit(s, p) == UpdateRequests < MaxRejects /\ SocketEdit(s, p)
RejectDelete(s, p) == UpdateRequests < MaxRejects /\ SocketDelete(s, p)

NextReject ==
  \/ \E hs \in RejectHandshakes : Connection(hs[1], hs[2])
  \/ \E i \in Slots : SetOnlineResume(i)
  \/ \E s \in RejectSockets, c \in Convs : SocketJoin(s, c)
  \/ \E s \in {"s1", "s4"} : \E p \in RequestsOf("s1") : SendFirst(s, p)
  \/ \E i \in Slots : SendSave(i)
  \/ \E i \in Slots : SendUpdateConv(i)
  \/ \E i \in Slots : SendPopulate(i)
  \/ \E s \in {"s4"} : \E p \in SeenPayloads : RejectSeen(s, p)
  \/ \E i \in Slots : MessageSeenResume(i)
  \/ \E s \in RejectSockets : \E p \in EditPayloads : RejectEdit(s, p)
  \/ \E i \in Slots : EditFind(i)
  \/ \E i \in Slots : EditSave(i)
  \/ \E i \in Slots : EditPopulate(i)
  \/ \E s \in {"s4"} : \E p \in DeletePayloads : RejectDelete(s, p)
  \/ \E i \in Slots : DeleteFind(i)
  \/ \E i \in Slots : DeleteSave(i)
  \/ \E i \in Slots : StoreError(i)

SpecReject == Init /\ [][NextReject]_vars

\* an acknowledgment that reports a failure
IsRejection(e) == e.type \in {"ack", "seen:ack", "edit:ack", "delete:ack"} /\ ~e.ok

\* an event emitted to a room
IsRoomEvent(e) ==
  e.type \in {"private:message", "message:seen", "message:edited", "message:deleted"}

\* the acknowledgment that follows a room event of the given type
AckTypeOf(type) ==
  CASE type = "private:message" -> "ack"
    [] type = "message:seen" -> "seen:ack"
    [] type = "message:edited" -> "edit:ack"
    [] type = "message:deleted" -> "delete:ack"

\* the successful events of one type that answer request req of socket s
EventsOf(type, s, req) ==
  {k \in DOMAIN trace :
     trace[k].type = type /\ trace[k].conn = s /\ trace[k].req = req /\ trace[k].ok}

\* C31: a rejected send, edit, delete or mark-seen request is reported on the
\* requester's acknowledgment only: every failure is an acknowledgment that
\* goes to no socket but the requester's, and every room event belongs to a
\* request that was acknowledged with ok (a request of a socket has never
\* more room events than ok acknowledgments).
C31_RejectionOnAckOnly ==
  /\ \A k \in DOMAIN trace :
       ~trace[k].ok => /\ IsRejection(trace[k])
                       /\ trace[k].to \subseteq {trace[k].conn}
  /\ \A k \in DOMAIN trace :
       IsRoomEvent(trace[k]) =>
         Cardinality(EventsOf(trace[k].type, trace[k].conn, trace[k].req))
           <= Cardinality(EventsOf(AckTypeOf(trace[k].type), trace[k].conn, trace[k].req))

\* a send without a user and an edit whose store call failed have both been
\* rejected while the sender and the other socket are in the room
C31_Witness ==
  /\ rooms["c1"] = {"s1", "s4"}
  /\ \E j, k \in DOMAIN trace :
       /\ IsRejection(trace[j]) /\ trace[j].error = "not_authenticated"
       /\ IsRejection(trace[k]) /\ trace[k].type = "edit:ack"
       /\ trace[k].error = "server_error"

\* the typing indicator: rooms, typing events, connects and disconnects
NextTyping ==
  \/ \E hs \in RejectHandshakes : Connection(hs[1], hs[2])
  \/ \E i \in Slots : SetOnlineResume(i)
  \/ \E s \in RejectSockets : Disconnect(s)
  \/ \E i \in Slots : SetOfflineResume(i)
  \/ \E s \in RejectSockets, c \in Convs : SocketJoin(s, c)
  \/ \E s \in RejectSockets, c \in Convs : SocketLeave(s, c)
  \/ \E s \in RejectSockets : \E p \in TypingPayloads : SocketTyping(s, p)

SpecTyping == Init /\ [][NextTyping]_vars

\* C33: a step that forwards a typing event writes nothing to the store
\* (users, conversations and messages are unchanged) and sends the event to
\* the sockets joined to the conversation's room except the one that sent it.
C33_TypingEphemeralFanOut ==
  [][(Len(trace') = Len(trace) + 1 /\ trace'[Len(trace')].type = "typing") =>
       /\ users' = users /\ conversations' = conversations /\ messages' = messages
       /\ trace'[Len(trace')].to
            = rooms[trace'[Len(trace')].req.convId] \ {trace'[Len(trace')].conn}]_vars

\* a typing event of a socket that is in the room together with another
\* socket has been forwarded to that other socket
C33_Witness ==
  \E k \in DOMAIN trace :
    /\ trace[k].type = "typing"
    /\ trace[k].to # {}
    /\ rooms[trace[k].req.convId] = trace[k].to \cup {trace[k].conn}
    /\ trace[k].conn \notin trace[k].to

\* C35: the two presence maps agree in every state: a socket id is in
\* userSockets[u] exactly when socketUser maps it to u, no socket id is in the
\* sets of two users, and userSockets holds no empty set.
C35_PresenceMapsConsistent ==
  /\ \A sid \in Conns, u \in Users :
       (u \in DOMAIN userSockets /\ sid \in userSockets[u])
         <=> (sid \in DOMAIN socketUser /\ socketUser[sid] = u)
  /\ \A u, v \in DOMAIN userSockets :
       u # v => userSockets[u] \cap userSockets[v] = {}
  /\ \A u \in DOMAIN userSockets : userSockets[u] # {}
  /\ DOMAIN userSockets \subseteq Users

\* one of the two sockets of u1 has disconnected and the other stays
\* registered in both maps
C35_Witness ==
  /\ sockets["s1"].st = "closed"
  /\ sockets["s2"].st = "open"
  /\ userSockets = [u \in {"u1"} |-> {"s2"}]
  /\ socketUser = [sid \in {"s2"} |-> "u1"]

\* C36: a send is all-or-nothing: every message in the store belongs to a
\* send that is still in flight or that was broadcast and acknowledged with
\* ok, so a send acknowledged with ok:false has left no message behind.
C36_SendAllOrNothing ==
  \A m \in DOMAIN messages :
    \/ \E i \in DOMAIN handlers : handlers[i].kind = "send" /\ handlers[i].doc._id = m
    \/ /\ \E k \in DOMAIN trace : IsSendAck(trace[k]) /\ trace[k].ok /\ trace[k].msg = m
       /\ \E k \in DOMAIN trace : IsBroadcast(trace[k]) /\ trace[k].msg = m

\* C37: a socket whose handshake carried no valid token is in no room, is
\* sent no room event, causes no event that goes to another socket, and
\* appears in no stored message as sender or reader.
C37_AnonymousHasNoEffect ==
  /\ \A c \in DOMAIN rooms : \A s \in rooms[c] : sockets[s].userId # NoUser
  /\ \A k \in DOMAIN trace :
       /\ IsRoomEvent(trace[k]) => \A s \in trace[k].to : sockets[s].userId # NoUser
       /\ sockets[trace[k].conn].userId = NoUser => trace[k].to \subseteq {trace[k].conn}
  /\ \A m \in DOMAIN messages :
       messages[m].senderId # NoUser /\ NoUser \notin SeenSet(messages[m])

\* ------------------------------------------------------------ the preview
\* the sends of SpecPreview: a text of each kind, so that the preview tells
\* which send wrote it
PreviewPayloads ==
  {p \in Payloads : p.attachments = << >> /\ p.tempId = TempId(1)}

\* the sends of the two devices of u1 and the three store calls of each
NextPreview ==
  \/ \E hs \in SendHandshakes : Connection(hs[1], hs[2])
  \/ \E i \in Slots : SetOnlineResume(i)
  \/ \E s \in ClientSockets : \E p \in PreviewPayloads : SocketMessage(s, p)
  \/ \E i \in Slots : SendSave(i)
  \/ \E i \in Slots : SendUpdateConv(i)
  \/ \E i \in Slots : SendPopulate(i)

SpecPreview == Init /\ [][NextPreview]_vars

\* the messages of conversation c in the order of their inserts
PersistedIn(c) ==
  SelectSeq(persisted, LAMBDA m : messages[m].conversationId = c)

\* C39: whenever no send handler is in flight, the preview text of every
\* conversation that has messages is the text of the message persisted last.
C39_PreviewIsLastPersisted ==
  (\A i \in DOMAIN handlers : handlers[i].kind # "send") =>
    \A c \in DOMAIN conversations :
      PersistedIn(c) # << >> =>
        conversations[c].lastMessageText
          = messages[PersistedIn(c)[Len(PersistedIn(c))]].text

\* ------------------------------------------------------------ seen batching
\* the conversations whose messages the tab shows in SpecSeenBatch
SeenConvs == {"c1", "c2"}

\* a rendered message has been in view for the delay of its observer:
\* scheduleSeen(message.conversationId || activeConv, message._id)
ObserveSeen(convId, messageId) ==
  /\ Len(c2s) < MaxSeenEvents
  /\ seenQueue' = ScheduleSeen(seenQueue, convId, messageId)
  /\ seenTimer' = ArmSeenTimer(seenTimer)
  /\ UNCHANGED <<cSock, isConnected, cUsed, clientConvs, activeConv, opening, opens,
                 messagesCache, nodes, pendingSends, offlineQueue, promises,
                 ackCallbacks, nextTemp, cursor, handled, c2s>>
  /\ UNCHANGED emitted
  /\ UNCHANGED serverVars

\* the seen reports of the tab while its socket connects and disconnects
NextSeenBatch ==
  \/ \E s \in TabSockets : Connection(s, Me)
  \/ \E i \in Slots : SetOnlineResume(i)
  \/ \E s \in TabSockets : Disconnect(s)
  \/ \E i \in Slots : SetOfflineResume(i)
  \/ \E s \in TabSockets : OnConnect(s)
  \/ OnDisconnect
  \/ \E c \in SeenConvs, m \in 1..MaxMsgs : ObserveSeen(c, m)
  \/ FlushSeenQueue

SpecSeenBatch == Init /\ [][NextSeenBatch]_vars

\* the events a step has appended to the events the socket emitted
NewEvents == SubSeq(c2s', Len(c2s) + 1, Len(c2s'))

\* C34: seen reports are batched. At most one flush timer is armed, so a
\* scheduleSeen that comes before the timer fires replaces the timer and no
\* flush happens in between; a step that schedules an id emits nothing and
\* keeps every pending id; a flush emits at most one message:seen event per
\* conversation, each with all the ids pending for its conversation, and
\* leaves the pending sets empty.
C34_SeenBatching ==
  /\ [](seenTimer <= 1)
  /\ [][(seenQueue' # seenQueue /\ seenQueue' # << >>) =>
          /\ seenTimer' = 1
          /\ c2s' = c2s
          /\ \A k \in DOMAIN seenQueue : \E n \in DOMAIN seenQueue' :
               /\ seenQueue'[n].convId = seenQueue[k].convId
               /\ seenQueue[k].ids \subseteq seenQueue'[n].ids]_vars
  /\ [][seenTimer' < seenTimer =>
          /\ seenQueue' = << >>
          /\ \A i, j \in DOMAIN NewEvents :
               i # j => NewEvents[i].payload.convId # NewEvents[j].payload.convId
          /\ \A i \in DOMAIN NewEvents :
               /\ NewEvents[i].type = "message:seen"
               /\ \E k \in DOMAIN seenQueue :
                    /\ seenQueue[k].convId = NewEvents[i].payload.convId
                    /\ seenQueue[k].ids = NewEvents[i].payload.messageIds]_vars

\* a flush has emitted one event for each of two conversations, one of them
\* with two ids, and nothing is pending
C34_Witness ==
  /\ seenQueue = << >>
  /\ seenTimer = 0
  /\ \E i, j \in DOMAIN c2s :
       /\ c2s[i].type = "message:seen" /\ c2s[j].type = "message:seen"
       /\ c2s[i].payload.convId # c2s[j].payload.convId
       /\ Cardinality(c2s[i].payload.messageIds) = 2
       /\ Len(c2s) = 2

\* C38: no seen report is lost: an id leaves the pending sets only in a step
\* that emits a message:seen event of its conversation which carries the id.
C38_NoSeenLost ==
  [][\A k \in DOMAIN seenQueue : \A id \in seenQueue[k].ids :
       (\A n \in DOMAIN seenQueue' :
          seenQueue'[n].convId = seenQueue[k].convId => id \notin seenQueue'[n].ids)
       => \E i \in DOMAIN NewEvents :
            /\ NewEvents[i].type = "message:seen"
            /\ NewEvents[i].payload.convId = seenQueue[k].convId
            /\ id \in NewEvents[i].payload.messageIds]_vars

\* ------------------------------------------------------- joins of the tab
\* the boot of the tab (loadMyProfile: connectSocket and fetchConversations,
\* which complete in either order) for a user who has, or is about to have,
\* a second conversation
NextBoot ==
  \/ \E user \in {"u3"} : ConversationPost(Me, user)
  \/ \E i \in Slots : ConversationFind(i)
  \/ \E i \in Slots : ConversationSave(i)
  \/ \E i \in Slots : ConversationPopulate(i)
  \/ \E s \in TabSockets : Connection(s, Me)
  \/ \E i \in Slots : SetOnlineResume(i)
  \/ \E s \in TabSockets : OnConnect(s)
  \/ FetchConversations
  \/ OpenConversationDone

SpecBoot == Init /\ [][NextBoot]_vars

\* C40: once the socket is connected, the conversation list is loaded and the
\* fetch of the conversation opened at boot has completed, the socket has
\* emitted a private:join for every conversation of the list.
C40_JoinsEveryListedConversation ==
  (isConnected /\ clientConvs # << >> /\ opening = NoConv) =>
    \A i \in DOMAIN clientConvs :
      \E k \in DOMAIN c2s : c2s[k] = JoinEvent(cSock, clientConvs[i])

\* --------------------------------------------------------------- reconnect
\* the sockets of SpecResume: the tab's first socket, the one it reconnects
\* with, and the socket of the other participant
ResumeHandshakes == {<<"s1", "u1">>, <<"s2", "u1">>, <<"s3", "u2">>}

\* a socket of SpecResume connects
ResumeConnection(s, tok) == ConnectionUpTo(s, tok, MaxResumeSockets)

\* the other participant sends while the tab, which has been connected, is not
SendWhileAway(s, p) ==
  /\ cSock = NoSock
  /\ "s1" \in cUsed
  /\ SendFirst(s, p)

\* the tab has booted with its first socket before the socket is lost
DisconnectBooted(s) ==
  /\ s \in cUsed
  /\ Disconnect(s)

\* the tab's disconnect event for its first socket; the socket it reconnects
\* with stays connected
LoseFirstSocket ==
  /\ cSock = "s1"
  /\ OnDisconnect

\* the tab with a conversation open loses its socket and reconnects, while
\* the other participant sends a message to the conversation
NextResume ==
  \/ \E hs \in ResumeHandshakes : ResumeConnection(hs[1], hs[2])
  \/ \E i \in Slots : SetOnlineResume(i)
  \/ \E s \in {"s1"} : DisconnectBooted(s)
  \/ \E i \in Slots : SetOfflineResume(i)
  \/ \E s \in ClientSockets : OnConnect(s)
  \/ LoseFirstSocket
  \/ FetchConversations
  \/ \E c \in Convs : OpenConversation(c)
  \/ OpenConversationDone
  \/ ReceiveClosed
  \/ ReceiveJoin
  \/ \E p \in RequestsOf("s3") : SendWhileAway("s3", p)
  \/ \E i \in Slots : SendSave(i)
  \/ \E i \in Slots : SendUpdateConv(i)
  \/ \E i \in Slots : SendPopulate(i)
  \/ ReceiveMessage
  \/ FlushSeenQueue
  \/ ReceiveSeen
  \/ \E i \in Slots : MessageSeenResume(i)
  \/ OnMessageSeen

\* the event loops run every handler that is ready, the store answers, the
\* network delivers, an armed timer fires, and socket.io connects again after
\* a disconnect; the loss of the socket, the other participant's send and the
\* user's clicks are free
ResumeFairness ==
  /\ \A hs \in ResumeHandshakes : WF_vars(ResumeConnection(hs[1], hs[2]))
  /\ \A s \in ClientSockets : WF_vars(OnConnect(s))
  /\ \A i \in Slots : /\ WF_vars(SetOnlineResume(i))
                      /\ WF_vars(SetOfflineResume(i))
                      /\ WF_vars(SendSave(i))
                      /\ WF_vars(SendUpdateConv(i))
                      /\ WF_vars(SendPopulate(i))
                      /\ WF_vars(MessageSeenResume(i))
  /\ WF_vars(FetchConversations)
  /\ WF_vars(OpenConversationDone)
  /\ WF_vars(ReceiveClosed)
  /\ WF_vars(ReceiveJoin)
  /\ WF_vars(ReceiveMessage)
  /\ WF_vars(FlushSeenQueue)
  /\ WF_vars(ReceiveSeen)
  /\ WF_vars(OnMessageSeen)

SpecResume == Init /\ [][NextResume]_vars /\ ResumeFairness

\* the ids of the messages in the tab's list of conversation c
ListedIds(c) == {CacheOf(c)[i]._id : i \in DOMAIN CacheOf(c)}

\* C32: a message of the open conversation that is in the store while the
\* tab has lost its first socket and has not reconnected yet is eventually in
\* the tab's list of that conversation (the tab reconnects and fetches the
\* list anew).
C32_ReconnectRefetches ==
  \A m \in 1..MaxMsgs :
    (/\ cSock = NoSock /\ "s1" \in cUsed /\ "s2" \notin cUsed
     /\ activeConv # NoConv
     /\ m \in DOMAIN messages
     /\ messages[m].conversationId = activeConv)
      ~> (activeConv # NoConv /\ m \in ListedIds(activeConv))

====
